---- MODULE Spec2Model ----
(***************************************************************************)
(* Model of the render-path computation, caching and lock detection of     *)
(* the Shotgun write node handler (python/tk_nuke_writenode/handler.py)    *)
(* and of the app-level context change (app.py).                           *)
(*                                                                         *)
(* A path is a sequence of path segments; the empty sequence is the empty  *)
(* string of a knob that was never set.  A template is a sequence of       *)
(* tokens, each a literal segment or a named key.                          *)
(***************************************************************************)
EXTENDS Integers, Sequences, FiniteSets, TLC

\* ------------------------------------------------------------------------
\* Bounds of the model
\* ------------------------------------------------------------------------
\* number of handler invocations and host events explored in one behaviour
MaxSteps == 3
\* number of re-entrant callbacks the host may deliver inside one update
MaxNested == 2
\* number of invocations explored when callbacks are delivered re-entrantly
MaxNestedSteps == 2

\* ------------------------------------------------------------------------
\* The host document and the toolkit configuration
\* ------------------------------------------------------------------------
Nodes == {"n1", "n2"}
\* nuke.allNodes order
NodeOrder == <<"n1", "n2">>

Contexts == {"ctxA", "ctxB"}
Widths == {"1920", "2048"}
Dates == {"d1", "d2"}
WriteTypes == {"Version", "Element"}
OutputNames == {"", "main", "bad/name"}

NoPath == <<>>
\* nuke.scriptName() fails for a script that was never saved
NoScript == <<>>
ScriptV1 == <<"work", "shotA", "v001">>
ScriptV2 == <<"work", "shotA", "v002">>
ScriptTmp == <<"tmp", "untitled">>
Scripts == {NoScript, ScriptV1, ScriptV2, ScriptTmp}
\* a work file whose name carries an output name
ScriptOut == <<"work", "shotA", "v001", "main">>

Lit(s) == [kind |-> "lit", v |-> s, opt |-> FALSE]
Key(k) == [kind |-> "key", v |-> k, opt |-> FALSE]
OptKey(k) == [kind |-> "key", v |-> k, opt |-> TRUE]

NoTemplate == ""
TemplateNames == {"nuke_script_work", "nuke_render_exr", "nuke_render_proxy",
                  "nuke_render_dpx", "nuke_render_elem", "nuke_render_jpg"}

TemplateDefs ==
    [t \in TemplateNames |->
        CASE t = "nuke_script_work" ->
                <<Lit("work"), Key("Shot"), Key("version"), OptKey("output")>>
          [] t = "nuke_render_exr" ->
                <<Lit("exr"), Key("Shot"), Key("version"), Key("output"), Key("width"), Key("SEQ")>>
          [] t = "nuke_render_proxy" ->
                <<Lit("proxy"), Key("Shot"), Key("version"), Key("output"), Key("width"), Key("SEQ")>>
          [] t = "nuke_render_dpx" ->
                <<Lit("dpx"), Key("Shot"), Key("version"), OptKey("output"), Key("DD"), Key("SEQ")>>
          [] t = "nuke_render_elem" ->
                <<Lit("elem"), Key("Shot"), Key("version"), Key("channel"), Key("SEQ")>>
          [] t = "nuke_render_jpg" ->
                <<Lit("jpg"), Key("Shot"), Key("version"), Key("SEQ")>>]

\* the strings a key accepts (TemplateKey.validate)
KeyValues(k) ==
    CASE k = "Shot" -> {"shotA", "shotB"}
      [] k = "version" -> {"v001", "v002"}
      [] k = "output" -> {"main"}
      [] k = "channel" -> {"main"}
      [] k = "width" -> {"1920", "2048", "960", "1024"}
      [] k = "height" -> {"1080", "540"}
      [] k = "DD" -> Dates
      [] k = "SEQ" -> {"%04d", "FORMAT: %d"}
      [] OTHER -> {}

\* the entity of a context, as context.as_template_fields resolves it
ShotOf(c) == IF c = "ctxA" THEN "shotA" ELSE "shotB"

Profile(n, r, p, e) ==
    [name |-> n, render_template |-> r, proxy_render_template |-> p,
     element_render_template |-> e]

\* app.get_setting("write_nodes") in the environment of a context
SettingWriteNodes(c) ==
    IF c = "ctxA"
    THEN <<Profile("Exr", "nuke_render_exr", "nuke_render_proxy", "nuke_render_elem"),
           Profile("Dpx", "nuke_render_dpx", NoTemplate, "nuke_render_elem"),
           Profile("Exr", "nuke_render_dpx", NoTemplate, "nuke_render_elem"),
           Profile("Jpg", "nuke_render_jpg", NoTemplate, "nuke_render_elem")>>
    ELSE <<Profile("Exr", "nuke_render_exr", "nuke_render_proxy", "nuke_render_elem"),
           Profile("Jpg", "nuke_render_jpg", "nuke_render_proxy", "nuke_render_elem")>>

\* app.get_template("template_script_work")
SettingScriptTemplate(c) == "nuke_script_work"

\* ------------------------------------------------------------------------
\* The templating collaborator
\* ------------------------------------------------------------------------
\* app.get_template_by_name: the template of a name, or none
get_template_by_name(name) == IF name \in TemplateNames THEN name ELSE NoTemplate

\* the names of the keys of a token sequence
KeysOf(toks) == {toks[i].v : i \in {j \in DOMAIN toks : toks[j].kind = "key"}}

\* Template.keys
TemplateKeys(t) == KeysOf(TemplateDefs[t])

OptionalIn(toks, k) == \E i \in DOMAIN toks :
    toks[i].kind = "key" /\ toks[i].v = k /\ toks[i].opt

\* Template.is_optional
is_optional(t, k) == OptionalIn(TemplateDefs[t], k)

\* the string a key writes for a value: a sequence key formats "FORMAT: %d"
\* as the frame placeholder
KeyStr(k, v) == IF k = "SEQ" /\ v = "FORMAT: %d" THEN "%04d" ELSE v

\* the tokens of a template that a set of fields fills: an optional key
\* without a value is dropped
FilledTokens(t, have) ==
    SelectSeq(TemplateDefs[t], LAMBDA tok : tok.kind = "lit" \/ ~tok.opt \/ tok.v \in have)

\* the path the tokens write, unless a key has no value
ApplyTokens(toks, fields) ==
    IF \E i \in DOMAIN toks : toks[i].kind = "key" /\ toks[i].v \notin DOMAIN fields
    THEN [ok |-> FALSE, path |-> NoPath]
    ELSE [ok |-> TRUE,
          path |-> [i \in DOMAIN toks |->
                      IF toks[i].kind = "lit" THEN toks[i].v
                      ELSE KeyStr(toks[i].v, fields[toks[i].v])]]

\* Template.apply_fields: ok is FALSE where the real call raises TankError
apply_fields(t, fields) == ApplyTokens(FilledTokens(t, DOMAIN fields), fields)

\* a path matches a token sequence
TokensMatch(toks, path) ==
    /\ Len(toks) = Len(path)
    /\ \A i \in DOMAIN toks :
          IF toks[i].kind = "lit" THEN path[i] = toks[i].v
          ELSE path[i] \in KeyValues(toks[i].v)

TokenFields(toks, path) ==
    [k \in KeysOf(toks) |->
        path[CHOOSE i \in DOMAIN toks : toks[i].kind = "key" /\ toks[i].v = k]]

\* the fields a path has under a token sequence
PathFields(toks, path) ==
    IF TokensMatch(toks, path) THEN [ok |-> TRUE, fields |-> TokenFields(toks, path)]
    ELSE [ok |-> FALSE, fields |-> <<>>]

WithoutOptional(toks) == SelectSeq(toks, LAMBDA tok : ~tok.opt)

FirstMatch(a, b) == IF a.ok THEN a ELSE b

\* a path is read with the optional keys of the template, or without them
FieldsUnder(toks, path) ==
    FirstMatch(PathFields(toks, path), PathFields(WithoutOptional(toks), path))

\* Template.get_fields: ok is FALSE where the real call raises TankError
get_fields(t, path) == FieldsUnder(TemplateDefs[t], path)

\* Template.validate
validate(t, path) == get_fields(t, path).ok

\* context.as_template_fields(template)
as_template_fields(c, t) == [k \in TemplateKeys(t) \cap {"Shot"} |-> ShotOf(c)]


\* ------------------------------------------------------------------------
\* State
\* ------------------------------------------------------------------------
VARIABLES
    script,             \* nuke.scriptName(): the path of the current script
    ctx,                \* app.context
    today,              \* datetime.date.today()
    proxy,              \* node.proxy(): the script is in proxy mode
    width,              \* node.width() of every node
    profile_name,       \* knob profile_name
    write_type,         \* knob write_type
    output,             \* knob tank_channel (the output name)
    cached_path,        \* knob cached_path
    cached_proxy_path,  \* knob tk_cached_proxy_path
    last_known_script,  \* knob tk_last_known_script
    constructed,        \* knob tk_is_fully_constructed
    path_warning,       \* knob path_warning (text and visibility)
    reset_visible,      \* visibility of knob reset_path
    tmpl_knob,          \* knobs render_template, proxy_render_template, ...
    tcl_settings,       \* knob tk_write_node_settings is non-empty
    profiles,           \* handler._profiles
    profile_names,      \* handler._profile_names
    script_template,    \* handler._script_template
    rendering,          \* handler.__currently_rendering_nodes
    memo,               \* handler.__node_computed_path_settings_cache
    preview_cache,      \* handler.__path_preview_cache (its keys)
    upd_render,         \* handler.__is_updating_render_path
    upd_proxy,          \* handler.__is_updating_proxy_path
    reported,           \* how the last update of each node and mode ended
    lastOp,             \* what the last handler invocation did and returned
    steps               \* number of invocations so far

vars == <<script, ctx, today, proxy, width, profile_name, write_type, output,
          cached_path, cached_proxy_path, last_known_script, constructed,
          path_warning, reset_visible, tmpl_knob, tcl_settings, profiles,
          profile_names, script_template, rendering, memo, preview_cache,
          upd_render, upd_proxy, reported, lastOp, steps>>

\* the program state as one value, for the operators that transform it
S == [script |-> script, ctx |-> ctx, today |-> today, proxy |-> proxy,
      width |-> width, profile_name |-> profile_name, write_type |-> write_type,
      output |-> output, cached_path |-> cached_path,
      cached_proxy_path |-> cached_proxy_path,
      last_known_script |-> last_known_script, constructed |-> constructed,
      path_warning |-> path_warning, reset_visible |-> reset_visible,
      tmpl_knob |-> tmpl_knob, tcl_settings |-> tcl_settings,
      profiles |-> profiles, profile_names |-> profile_names,
      script_template |-> script_template, rendering |-> rendering,
      memo |-> memo, preview_cache |-> preview_cache,
      upd_render |-> upd_render, upd_proxy |-> upd_proxy]

Commit(s) ==
    /\ script' = s.script /\ ctx' = s.ctx /\ today' = s.today /\ proxy' = s.proxy
    /\ width' = s.width /\ profile_name' = s.profile_name
    /\ write_type' = s.write_type /\ output' = s.output
    /\ cached_path' = s.cached_path /\ cached_proxy_path' = s.cached_proxy_path
    /\ last_known_script' = s.last_known_script /\ constructed' = s.constructed
    /\ path_warning' = s.path_warning /\ reset_visible' = s.reset_visible
    /\ tmpl_knob' = s.tmpl_knob /\ tcl_settings' = s.tcl_settings
    /\ profiles' = s.profiles /\ profile_names' = s.profile_names
    /\ script_template' = s.script_template /\ rendering' = s.rendering
    /\ memo' = s.memo /\ preview_cache' = s.preview_cache
    /\ upd_render' = s.upd_render /\ upd_proxy' = s.upd_proxy

TemplateKnobs == {"render_template", "proxy_render_template", "element_render_template"}

NoWarning == [kind |-> "", err |-> "", can_render |-> FALSE]
NoEntry == [ctx |-> "", width |-> "", output |-> "", script_path |-> NoScript]
NoMemo == [has |-> FALSE, entry |-> NoEntry, err |-> "", path |-> NoPath]

\* the knob that caches the path of a resolution mode
CachedKnob(s, n, is_proxy) == IF is_proxy THEN s.cached_proxy_path[n] ELSE s.cached_path[n]

SetCachedKnob(s, n, is_proxy, p) ==
    IF is_proxy THEN [s EXCEPT !.cached_proxy_path[n] = p]
    ELSE [s EXCEPT !.cached_path[n] = p]

\* the knobs of the nodes, as one value
NodeState(s) == <<s.profile_name, s.write_type, s.output, s.cached_path,
                  s.cached_proxy_path, s.last_known_script, s.constructed,
                  s.path_warning, s.reset_visible, s.tmpl_knob, s.tcl_settings>>

\* ------------------------------------------------------------------------
\* Profiles and templates of a node
\* ------------------------------------------------------------------------
RECURSIVE ProfileTable(_, _)
\* the dictionary built by the loop of populate_profiles_from_settings:
\* a name already in the table is skipped
ProfileTable(defs, acc) ==
    IF defs = <<>> THEN acc
    ELSE LET p == Head(defs)
         IN  IF p.name \in DOMAIN acc THEN ProfileTable(Tail(defs), acc)
             ELSE ProfileTable(Tail(defs),
                               [k \in DOMAIN acc \cup {p.name} |->
                                   IF k = p.name THEN p ELSE acc[k]])

RECURSIVE ProfileNameList(_, _)
ProfileNameList(defs, acc) ==
    IF defs = <<>> THEN acc
    ELSE LET p == Head(defs)
         IN  IF \E i \in DOMAIN acc : acc[i] = p.name THEN ProfileNameList(Tail(defs), acc)
             ELSE ProfileNameList(Tail(defs), Append(acc, p.name))

\* a reload that adds the configured profiles to the table it already has
populate_profiles_merged(s) ==
    [s EXCEPT !.profiles = ProfileTable(SettingWriteNodes(s.ctx), s.profiles),
              !.profile_names = ProfileNameList(SettingWriteNodes(s.ctx), s.profile_names)]

populate_profiles_from_settings(s) ==
    [s EXCEPT !.profiles = ProfileTable(SettingWriteNodes(s.ctx), <<>>),
              !.profile_names = ProfileNameList(SettingWriteNodes(s.ctx), <<>>)]

populate_script_template(s) ==
    [s EXCEPT !.script_template = SettingScriptTemplate(s.ctx)]

\* __get_node_profile_settings: the profile of the node is loaded
HasProfileSettings(s, n) == s.profile_name[n] # "" /\ s.profile_name[n] \in DOMAIN s.profiles

\* a knob write that also empties the output name of the node
SetTemplateKnob_clears_output(s, n, name, v) ==
    [s EXCEPT !.tmpl_knob[n][name] = v, !.output[n] = ""]

\* a knob write that sets every template name knob of the node
SetTemplateKnob_every_knob(s, n, name, v) ==
    [s EXCEPT !.tmpl_knob[n] = [k \in TemplateKnobs |-> v]]

\* __update_knob_value on one of the template name knobs
SetTemplateKnob(s, n, name, v) == [s EXCEPT !.tmpl_knob[n][name] = v]

\* a lookup that knows the templates of loaded profiles only
get_template_profile_only(s, n, name) ==
    IF HasProfileSettings(s, n)
    THEN [st |-> s, tmpl |-> get_template_by_name(s.profiles[s.profile_name[n]][name])]
    ELSE [st |-> s, tmpl |-> NoTemplate]

\* __get_template: the template and the state (the name is written to the knob)
get_template(s, n, name) ==
    IF HasProfileSettings(s, n)
    THEN LET template_name == s.profiles[s.profile_name[n]][name]
         IN  [st |-> IF template_name # NoTemplate
                     THEN SetTemplateKnob(s, n, name, template_name) ELSE s,
              tmpl |-> get_template_by_name(template_name)]
    ELSE [st |-> s, tmpl |-> get_template_by_name(s.tmpl_knob[n][name])]

\* "if template or not fallback_to_render: return template": a branch that
\* finds no template and is asked to fall back leaves the if/elif chain,
\* and the function returns nothing
ReturnedTemplate(r, fallback_to_render) ==
    IF r.tmpl # NoTemplate \/ ~fallback_to_render THEN r
    ELSE [st |-> r.st, tmpl |-> NoTemplate]

\* __get_render_template
get_render_template(s, n, wtype, is_proxy, fallback_to_render) ==
    IF is_proxy
    THEN ReturnedTemplate(get_template(s, n, "proxy_render_template"), fallback_to_render)
    ELSE IF wtype = "Element"
    THEN ReturnedTemplate(get_template(s, n, "element_render_template"), fallback_to_render)
    ELSE get_template(s, n, "render_template")

\* __calculate_proxy_dimensions: the format of the node, scaled
ProxyWidth(w) == IF w = "1920" THEN "960" ELSE "1024"

HasOutputKey(t) == {"output", "channel"} \cap TemplateKeys(t) # {}

\* the settings returned for a template: the output name is read only
\* where the template has a key for it
Gathered(s, n, r, w) ==
    [st |-> r.st, tmpl |-> r.tmpl, width |-> w,
     output |-> IF r.tmpl # NoTemplate /\ HasOutputKey(r.tmpl) THEN s.output[n] ELSE ""]

\* __gather_render_settings(node, False)
GatherFull(s, n) ==
    Gathered(s, n, get_render_template(s, n, s.write_type[n], FALSE, FALSE), s.width[n])

\* the proxy branch: without a proxy template the settings of the full
\* resolution are gathered instead
GatherProxy(s, n, r) ==
    IF r.tmpl = NoTemplate THEN GatherFull(r.st, n)
    ELSE Gathered(s, n, r, ProxyWidth(s.width[n]))

\* __gather_render_settings
gather_render_settings(s, n, is_proxy) ==
    IF is_proxy
    THEN GatherProxy(s, n, get_render_template(s, n, s.write_type[n], TRUE, FALSE))
    ELSE GatherFull(s, n)


\* ------------------------------------------------------------------------
\* The path computer
\* ------------------------------------------------------------------------
Merge(f, g) == [k \in DOMAIN f \cup DOMAIN g |-> IF k \in DOMAIN g THEN g[k] ELSE f[k]]
Without(f, k) == [j \in DOMAIN f \ {k} |-> f[j]]
With(f, k, v) == [j \in DOMAIN f \cup {k} |-> IF j = k THEN v ELSE f[j]]

Failed(e) == [ok |-> FALSE, path |-> NoPath, err |-> e]
Computed(p) == [ok |-> TRUE, path |-> p, err |-> ""]

\* a loop that keeps the value the script's fields had for the key
OutputField_keeps_script_value(r, t, key_name, output_name) ==
    IF r.err # "" THEN r
    ELSE IF key_name \notin TemplateKeys(t) THEN r
    ELSE IF output_name = ""
    THEN IF ~is_optional(t, key_name)
         THEN [fields |-> r.fields, err |-> "output_required"]
         ELSE r
    ELSE IF output_name \notin KeyValues(key_name)
         THEN [fields |-> r.fields, err |-> "illegal_characters"]
         ELSE [fields |-> With(r.fields, key_name, output_name), err |-> ""]

\* a loop that takes any output name
OutputField_unvalidated(r, t, key_name, output_name) ==
    LET fields == IF key_name \in DOMAIN r.fields THEN Without(r.fields, key_name) ELSE r.fields
    IN  IF r.err # "" THEN r
        ELSE IF key_name \notin TemplateKeys(t) THEN [fields |-> fields, err |-> ""]
        ELSE IF output_name = ""
        THEN IF ~is_optional(t, key_name)
             THEN [fields |-> fields, err |-> "output_required"]
             ELSE [fields |-> fields, err |-> ""]
        ELSE [fields |-> With(fields, key_name, output_name), err |-> ""]

\* one round of the loop over "output" and "channel": the field is dropped
\* from the script's fields and set from the output name where the template
\* has the key
OutputField(r, t, key_name, output_name) ==
    LET fields == IF key_name \in DOMAIN r.fields THEN Without(r.fields, key_name) ELSE r.fields
    IN  IF r.err # "" THEN r
        ELSE IF key_name \notin TemplateKeys(t) THEN [fields |-> fields, err |-> ""]
        ELSE IF output_name = ""
        THEN IF ~is_optional(t, key_name)
             THEN [fields |-> fields, err |-> "output_required"]
             ELSE [fields |-> fields, err |-> ""]
        ELSE IF output_name \notin KeyValues(key_name)
             THEN [fields |-> fields, err |-> "illegal_characters"]
             ELSE [fields |-> With(fields, key_name, output_name), err |-> ""]

FieldsIfValid(r) == IF r.ok THEN r.fields ELSE <<>>

\* the fields of the current script under the work file template, where
\* there is a script and the template validates it
ScriptFields(s) ==
    IF s.script # NoScript /\ s.script_template # NoTemplate
    THEN FieldsIfValid(get_fields(s.script_template, s.script))
    ELSE <<>>

\* the fields added to those of the script: frame placeholder, dimensions, date
SyntheticFields(s, w) ==
    [k \in {"SEQ", "width", "height", "YYYY", "MM", "DD"} |->
        CASE k = "SEQ" -> "FORMAT: %d"
          [] k = "width" -> w
          [] k = "height" -> "1080"
          [] k = "YYYY" -> "2013"
          [] k = "MM" -> "01"
          [] k = "DD" -> s.today]

PathApplied(applied) ==
    IF ~applied.ok THEN Failed("apply_fields_failed") ELSE Computed(applied.path)

\* the end of __compute_render_path_from: the fields of the context are
\* added and the template is applied
ApplyOutput(s, t, r) ==
    IF r.err # "" THEN Failed(r.err)
    ELSE PathApplied(apply_fields(t, Merge(r.fields, as_template_fields(s.ctx, t))))

\* a computation that does not look whether the script gave any field
ComputeFromFields_unchecked(s, t, w, output_name, fields) ==
    ApplyOutput(s, t,
        OutputField(OutputField([fields |-> Merge(fields, SyntheticFields(s, w)),
                                 err |-> ""],
                                t, "output", output_name),
                    t, "channel", output_name))

\* __compute_render_path_from, given the fields of the script
ComputeFromFields(s, t, w, output_name, fields) ==
    IF DOMAIN fields = {} THEN Failed("not_a_work_file")
    ELSE ApplyOutput(s, t,
            OutputField(OutputField([fields |-> Merge(fields, SyntheticFields(s, w)),
                                     err |-> ""],
                                    t, "output", output_name),
                        t, "channel", output_name))

\* __compute_render_path_from
compute_render_path_from(s, t, w, output_name) ==
    IF t = NoTemplate THEN Failed("no_render_template")
    ELSE ComputeFromFields(s, t, w, output_name, ScriptFields(s))

ComputeGathered(g) ==
    [st |-> g.st, res |-> compute_render_path_from(g.st, g.tmpl, g.width, g.output)]

\* __compute_render_path: the result and the state (template name knobs)
compute_render_path(s, n, is_proxy) ==
    ComputeGathered(gather_render_settings(s, n, is_proxy))

PathComputed(c) == [st |-> c.st, path |-> c.res.path]

\* __get_render_path: the cached path, or a computed one where none is cached
get_render_path(s, n, is_proxy) ==
    IF CachedKnob(s, n, is_proxy) # NoPath
    THEN [st |-> s, path |-> CachedKnob(s, n, is_proxy)]
    ELSE PathComputed(compute_render_path(s, n, is_proxy))

\* ------------------------------------------------------------------------
\* Lock detection
\* ------------------------------------------------------------------------
\* the fields that are free to change
VolatileFields == {"width", "height", "YYYY", "MM", "DD"}

\* a comparison that looks at the names of the fields only
FieldsLocked_names_only(prev_fields, new_fields) ==
    \/ Cardinality(DOMAIN new_fields) # Cardinality(DOMAIN prev_fields)
    \/ \E name \in DOMAIN new_fields : name \notin DOMAIN prev_fields

\* the comparison of the fields of the cached path with those of the new one
FieldsLocked(prev_fields, new_fields) ==
    \/ Cardinality(DOMAIN new_fields) # Cardinality(DOMAIN prev_fields)
    \/ \E name \in DOMAIN new_fields :
          \/ name \notin DOMAIN prev_fields
          \/ (name \notin VolatileFields /\ prev_fields[name] # new_fields[name])

\* the fields of the cached path and of the new one: a cached path the
\* template cannot read is locked, a new path it cannot read raises
LockedFields(st, prev, new) ==
    IF ~prev.ok THEN [st |-> st, locked |-> TRUE, raised |-> FALSE]
    ELSE IF ~new.ok THEN [st |-> st, locked |-> FALSE, raised |-> TRUE]
    ELSE [st |-> st, locked |-> FieldsLocked(prev.fields, new.fields), raised |-> FALSE]

\* __is_render_path_locked, given the render template
LockedUnder(r, render_path, cached) ==
    IF r.tmpl = NoTemplate THEN [st |-> r.st, locked |-> TRUE, raised |-> FALSE]
    ELSE IF cached = NoPath THEN [st |-> r.st, locked |-> FALSE, raised |-> FALSE]
    ELSE LockedFields(r.st, get_fields(r.tmpl, cached), get_fields(r.tmpl, render_path))

\* __is_render_path_locked: raised where get_fields of the new path raises
is_render_path_locked(s, n, render_path, cached, is_proxy) ==
    LockedUnder(get_render_template(s, n, s.write_type[n], is_proxy, TRUE),
                render_path, cached)


\* ------------------------------------------------------------------------
\* __update_render_path
\* ------------------------------------------------------------------------
FrozenWarning(e, cached) == [kind |-> "frozen", err |-> e, can_render |-> cached # NoPath]
LockedWarning == [kind |-> "locked", err |-> "", can_render |-> TRUE]

\* tank.template_from_path finds exactly one template for the script
PreviewComputable(s) ==
    /\ s.script # NoScript
    /\ Cardinality({t \in TemplateNames : validate(t, s.script)}) = 1

\* the preview of a path is computed from the fields of the script unless
\* it is in the preview cache; get_fields is called on whatever
\* template_from_path returned
PreviewOf(s, p) ==
    IF <<p.path, s.ctx>> \in s.preview_cache THEN [st |-> p.st, raised |-> FALSE]
    ELSE IF PreviewComputable(s)
    THEN [st |-> [p.st EXCEPT !.preview_cache = @ \cup {<<p.path, s.ctx>>}],
          raised |-> FALSE]
    ELSE [st |-> p.st, raised |-> TRUE]

\* __update_path_preview
update_path_preview(s, n, is_proxy) == PreviewOf(s, get_render_path(s, n, is_proxy))

\* __is_output_used looks up both render templates
is_output_used(s, n) ==
    get_render_template(get_render_template(s, n, s.write_type[n], FALSE, FALSE).st,
                        n, s.write_type[n], TRUE, FALSE).st

\* feedback that is written whichever mode the node displays
UpdateFeedback_any_mode(s, n, is_proxy, warning, reset_button) ==
    update_path_preview(
        is_output_used([s EXCEPT !.path_warning[n] = warning,
                                 !.reset_visible[n] = reset_button], n),
        n, is_proxy)

\* the part of __update_render_path that updates the knobs the user sees,
\* only when the node displays the mode that was updated
UpdateFeedback(s, n, is_proxy, warning, reset_button) ==
    IF is_proxy # s.proxy THEN [st |-> s, raised |-> FALSE]
    ELSE LET s1 == [s EXCEPT !.path_warning[n] = warning,
                             !.reset_visible[n] = reset_button]
             s2 == IF is_proxy THEN get_render_path(s1, n, FALSE).st ELSE s1
         IN  update_path_preview(is_output_used(s2, n), n, is_proxy)

Frame(n, is_proxy, force, outcome, raised, ret, cached, candidate, t, warning, button) ==
    [node |-> n, is_proxy |-> is_proxy, force |-> force, outcome |-> outcome,
     raised |-> raised, ret |-> ret, cached_in |-> cached, candidate |-> candidate,
     tmpl |-> t, warning |-> warning, reset_button |-> button]

\* the finally clause
ClearUpdating(s, is_proxy) ==
    IF is_proxy THEN [s EXCEPT !.upd_proxy = FALSE] ELSE [s EXCEPT !.upd_render = FALSE]

SetUpdating(s, is_proxy) ==
    IF is_proxy THEN [s EXCEPT !.upd_proxy = TRUE] ELSE [s EXCEPT !.upd_render = TRUE]

IsUpdating(s, is_proxy) == IF is_proxy THEN s.upd_proxy ELSE s.upd_render

\* the value stored in the settings cache
MemoItem(entry, e, p) == [has |-> TRUE, entry |-> entry, err |-> e, path |-> p]

\* a knob that is written only while it is empty
AcceptPath_first_only(s, n, is_proxy, locked, cached, render_path) ==
    IF cached = NoPath THEN SetCachedKnob(s, n, is_proxy, render_path) ELSE s

\* an update that returns the path without writing it to the knob
AcceptPath_returned_only(s, n, is_proxy, locked, cached, render_path) == s

\* an accepted path that is written to the knobs of both modes
AcceptPath_both_modes(s, n, is_proxy, locked, cached, render_path) ==
    IF ~locked \/ cached = NoPath
    THEN SetCachedKnob(SetCachedKnob(s, n, is_proxy, render_path), n, ~is_proxy, render_path)
    ELSE s

\* the knob is written unless the path is locked and a path is cached
AcceptPath(s, n, is_proxy, locked, cached, render_path) ==
    IF ~locked \/ cached = NoPath THEN SetCachedKnob(s, n, is_proxy, render_path) ELSE s

\* a last known script that a reset does not record
RecordScript_unforced(s, n, force, script_path) ==
    IF s.last_known_script[n] = NoScript
    THEN [s EXCEPT !.last_known_script[n] = script_path] ELSE s

\* a last known script that every update records
RecordScript_every_update(s, n, force, script_path) ==
    [s EXCEPT !.last_known_script[n] = script_path]

\* the last known script is recorded on a reset or when none is known
RecordScript(s, n, force, script_path) ==
    IF force \/ s.last_known_script[n] = NoScript
    THEN [s EXCEPT !.last_known_script[n] = script_path] ELSE s

\* the key of the settings cache
MemoEntry(s, g, script_path) ==
    [ctx |-> s.ctx, width |-> g.width, output |-> g.output, script_path |-> script_path]

\* an update that computes the path whatever the settings cache holds
FirstPath_always_computed(g, item, entry, force) ==
    compute_render_path_from(g.st, g.tmpl, g.width, g.output)

\* the path of the settings: the one computed for the same settings before,
\* unless the update is forced
FirstPath(g, item, entry, force) ==
    IF ~force /\ item.has /\ entry = item.entry
    THEN (IF item.err # "" THEN Failed(item.err) ELSE Computed(item.path))
    ELSE compute_render_path_from(g.st, g.tmpl, g.width, g.output)

\* the else branch of the try, after the lock check and the second
\* computation of a forced update
Accepted(n, force, is_proxy, cached, script_path, first, lk, second) ==
    IF lk.raised \/ ~second.ok
    THEN [st |-> lk.st, kind |-> "raised", ret |-> NoPath, candidate |-> first.path,
          warning |-> NoWarning, button |-> FALSE]
    ELSE [st |-> RecordScript(AcceptPath(lk.st, n, is_proxy, lk.locked, cached,
                                         IF lk.locked THEN cached ELSE second.path),
                              n, force, script_path),
          kind |-> IF lk.locked THEN "locked" ELSE "ok",
          ret |-> IF lk.locked THEN cached ELSE second.path,
          candidate |-> second.path,
          warning |-> IF lk.locked THEN LockedWarning ELSE NoWarning,
          button |-> lk.locked]

\* a path was computed: it is compared with the cached one unless the
\* update is forced, and a forced update computes the path again
PathFound(s1, n, force, is_proxy, cached, script_path, g, first) ==
    Accepted(n, force, is_proxy, cached, script_path, first,
             IF force THEN [st |-> s1, locked |-> FALSE, raised |-> FALSE]
             ELSE is_render_path_locked(s1, n, first.path, cached, is_proxy),
             IF force THEN compute_render_path_from(s1, g.tmpl, g.width, g.output)
             ELSE first)

\* the try block: the result is stored in the settings cache; an error
\* keeps the cached path
Tried(n, force, is_proxy, cached, script_path, g, entry, first) ==
    IF ~first.ok
    THEN [st |-> [g.st EXCEPT !.memo[n][is_proxy] = MemoItem(entry, first.err, NoPath)],
          kind |-> "error", ret |-> cached, candidate |-> NoPath,
          warning |-> FrozenWarning(first.err, cached), button |-> FALSE]
    ELSE PathFound([g.st EXCEPT !.memo[n][is_proxy] = MemoItem(entry, "", first.path)],
                   n, force, is_proxy, cached, script_path, g, first)

WithFeedback(fb, frame) == [st |-> fb.st, frame |-> [frame EXCEPT !.raised = fb.raised]]

\* the statements after the try block, reached unless it raised
AfterTry(o, n, force, is_proxy, cached, t) ==
    IF o.kind = "raised"
    THEN [st |-> o.st,
          frame |-> Frame(n, is_proxy, force, "raised", TRUE, NoPath, cached,
                          o.candidate, t, NoWarning, FALSE)]
    ELSE WithFeedback(UpdateFeedback(o.st, n, is_proxy, o.warning, o.button),
             Frame(n, is_proxy, force, o.kind, FALSE, o.ret, cached, o.candidate,
                   t, o.warning, o.button))

\* the update, given the settings gathered
UpdateWith(s, n, force, is_proxy, cached, script_path, g, entry) ==
    AfterTry(Tried(n, force, is_proxy, cached, script_path, g, entry,
                FirstPath(g, g.st.memo[n][is_proxy], entry, force)),
          n, force, is_proxy, cached, g.tmpl)

UpdateGathered(s, n, force, is_proxy, cached, script_path, g) ==
    UpdateWith(s, n, force, is_proxy, cached, script_path, g,
               MemoEntry(s, g, script_path))

\* the body of __update_render_path after the guards: cached and script_path
\* are the values read before the settings were gathered
UpdateBody(s, n, force, is_proxy, cached, script_path) ==
    UpdateGathered(s, n, force, is_proxy, cached, script_path,
                   gather_render_settings(s, n, is_proxy))

\* an update that does not look at the rendering set
IsRendering_never(s, n) == FALSE

\* the node is between its before-render and after-render callbacks
IsRendering(s, n) == n \in s.rendering

\* what an update left behind on the node and the callbacks that ran
\* inside it, added to its frame
Observed(s, u, n, is_proxy, nested) ==
    [st |-> u.st,
     frame |-> u.frame @@ [knob_out |-> CachedKnob(u.st, n, is_proxy),
                           lks_in |-> s.last_known_script[n],
                           lks_out |-> u.st.last_known_script[n],
                           constructed_in |-> s.constructed[n],
                           nested |-> nested]]

\* guards that return no path
UpdateGuarded_returns_nothing(s, n, force, is_proxy) ==
    [st |-> ClearUpdating(s, is_proxy),
     frame |-> Frame(n, is_proxy, force,
                     IF IsRendering(s, n) THEN "rendering" ELSE "reentrant",
                     FALSE, NoPath, CachedKnob(s, n, is_proxy),
                     NoPath, NoTemplate, NoWarning, FALSE)]

\* the guards of __update_render_path: both return the cached path, and the
\* finally clause runs for both
UpdateGuarded(s, n, force, is_proxy) ==
    [st |-> ClearUpdating(s, is_proxy),
     frame |-> Frame(n, is_proxy, force,
                     IF IsRendering(s, n) THEN "rendering" ELSE "reentrant",
                     FALSE, CachedKnob(s, n, is_proxy), CachedKnob(s, n, is_proxy),
                     NoPath, NoTemplate, NoWarning, FALSE)]

\* a flag that is cleared on a normal return only
Finally_on_return(b, is_proxy) ==
    IF b.frame.raised THEN b
    ELSE [st |-> ClearUpdating(b.st, is_proxy), frame |-> b.frame]

\* the finally clause after the body
Finally(b, is_proxy) == [st |-> ClearUpdating(b.st, is_proxy), frame |-> b.frame]

RECURSIVE update_render_path(_, _, _, _, _)

\* what a callback delivered inside an update did
NestedFrame(s, u) ==
    [st |-> u.st,
     frames |-> <<u.frame @@ [modified |-> NodeState(u.st) # NodeState(s),
                              memo_modified |-> u.st.memo # s.memo]>>]

\* on_compute_path_gizmo_callback / on_compute_proxy_path_gizmo_callback
\* delivered while an update is running
NestedCallback(s, call) ==
    IF ~s.constructed[call.node] THEN [st |-> s, frames |-> <<>>]
    ELSE NestedFrame(s, update_render_path(s, call.node, FALSE, call.is_proxy, <<>>))

RECURSIVE RunNested(_, _)

Joined(h, t) == [st |-> t.st, frames |-> h.frames \o t.frames]

RunRest(h, calls) == Joined(h, RunNested(h.st, calls))

RunNested(s, calls) ==
    IF calls = <<>> THEN [st |-> s, frames |-> <<>>]
    ELSE RunRest(NestedCallback(s, Head(calls)), Tail(calls))

\* the update after the callbacks that interrupted it
UpdateAfter(s, n, force, is_proxy, nest) ==
    Observed(s, Finally(UpdateBody(nest.st, n, force, is_proxy,
                                   CachedKnob(s, n, is_proxy), s.script),
                        is_proxy),
             n, is_proxy, nest.frames)

\* __update_render_path: calls are the callbacks the host delivers while the
\* settings are gathered (querying the width of a node evaluates its knobs)
update_render_path(s, n, force, is_proxy, calls) ==
    IF IsRendering(s, n) \/ IsUpdating(s, is_proxy)
    THEN Observed(s, UpdateGuarded(s, n, force, is_proxy), n, is_proxy, <<>>)
    ELSE UpdateAfter(s, n, force, is_proxy, RunNested(SetUpdating(s, is_proxy), calls))


\* ------------------------------------------------------------------------
\* Handlers
\* ------------------------------------------------------------------------
BothUpdates(f1, u2) ==
    [st |-> u2.st, frames |-> <<f1, u2.frame>>, raised |-> u2.frame.raised]

\* a reset of the displayed mode only
ResetOther_displayed_only(u1, n, is_proxy) ==
    [st |-> u1.st, frames |-> <<u1.frame>>, raised |-> u1.frame.raised]

\* the second update of a reset: an exception of the first leaves it out
ResetOther(u1, n, is_proxy) ==
    IF u1.frame.raised
    THEN [st |-> u1.st, frames |-> <<u1.frame>>, raised |-> TRUE]
    ELSE BothUpdates(u1.frame, update_render_path(u1.st, n, TRUE, is_proxy, <<>>))

\* reset_render_path: the displayed mode first, then the other one
reset_render_path(s, n, calls) ==
    ResetOther(update_render_path(s, n, TRUE, s.proxy, calls), n, ~s.proxy)

Done(s, frames, raised) == [st |-> s, frames |-> frames, raised |-> raised]

\* __set_output
set_output(s, n, output_name) ==
    reset_render_path([s EXCEPT !.output[n] = output_name], n, <<>>)

\* the template name knobs written by __set_profile
ProfileTemplateKnobs(s, n, profile) ==
    [s EXCEPT !.tmpl_knob[n] =
        [k \in TemplateKnobs |-> get_template_by_name(profile[k])]]

\* __populate_format_settings: a node that is not reset to the profile has
\* the knob settings stored at the last save applied and its path reset
populate_format_settings(s, n, reset_all_settings) ==
    IF ~reset_all_settings /\ s.tcl_settings[n]
    THEN reset_render_path(s, n, <<>>)
    ELSE Done(s, <<>>, FALSE)

\* __apply_cached_file_format_settings: nothing to apply on a node that
\* never had a profile (knob tk_file_type is empty)
apply_cached_file_format_settings(s, n) ==
    IF s.profile_name[n] = "" THEN Done(s, <<>>, FALSE)
    ELSE populate_format_settings(s, n, FALSE)

After(frames, r) == Done(r.st, frames \o r.frames, r.raised)

\* a profile change that never resets the path
ProfileSet_without_reset(s, n, name, f) ==
    IF f.raised THEN f
    ELSE Done(ProfileTemplateKnobs(f.st, n, s.profiles[name]), f.frames, FALSE)

\* __set_profile after the format settings: the template names are written
\* to the knobs, and the path is reset where the profile has changed
ProfileSet(s, n, name, f) ==
    IF f.raised THEN f
    ELSE IF name # s.profile_name[n]
    THEN After(f.frames,
               reset_render_path(ProfileTemplateKnobs(f.st, n, s.profiles[name]), n, <<>>))
    ELSE Done(ProfileTemplateKnobs(f.st, n, s.profiles[name]), f.frames, FALSE)

\* __set_profile
set_profile(s, n, name, reset_all_settings) ==
    IF name \notin DOMAIN s.profiles THEN apply_cached_file_format_settings(s, n)
    ELSE ProfileSet(s, n, name,
                    populate_format_settings([s EXCEPT !.profile_name[n] = name],
                                             n, reset_all_settings))

\* the name setup_new_node selects: the profile of the node, marked where it
\* is no longer loaded, or the first profile for a node without one
SetupProfileName(s, n) ==
    IF s.profile_name[n] = "" THEN s.profile_names[1]
    ELSE IF s.profile_name[n] \notin DOMAIN s.profiles THEN "[Not Found]"
    ELSE s.profile_name[n]

\* setup_new_node: the construction flag is set before the profile is applied
setup_new_node(s, n) ==
    IF s.constructed[n] THEN Done(s, <<>>, FALSE)
    ELSE LET s1 == [s EXCEPT !.constructed[n] = TRUE]
         IN  set_profile(s1, n, SetupProfileName(s, n), s.profile_name[n] = "")

OneUpdate(u) == Done(u.st, <<u.frame>>, u.frame.raised)

\* a callback that does not look at the construction flag
on_compute_path_ungated(s, n, is_proxy, calls) ==
    OneUpdate(update_render_path(s, n, FALSE, is_proxy, calls))

\* on_compute_path_gizmo_callback and on_compute_proxy_path_gizmo_callback
on_compute_path(s, n, is_proxy, calls) ==
    IF ~s.constructed[n] THEN Done(s, <<>>, FALSE)
    ELSE OneUpdate(update_render_path(s, n, FALSE, is_proxy, calls))

\* __on_knob_changed for the output knob, after the host has set the knob
on_output_changed(s, n, v) ==
    LET s1 == [s EXCEPT !.output[n] = v]
    IN  IF ~s.constructed[n] THEN Done(s1, <<>>, FALSE)
        ELSE set_output(s1, n, v)

\* __on_knob_changed for the profile list
on_profile_changed(s, n, name) ==
    IF ~s.constructed[n] THEN Done(s, <<>>, FALSE)
    ELSE set_profile(s, n, name, TRUE)

LockAnswer(lk) == [st |-> lk.st, locked |-> lk.locked, raised |-> lk.raised]

\* the comparison of the computed path with the cached one
LockedAgainst(c, cached, n) ==
    LockAnswer(is_render_path_locked(cached.st, n, c.res.path, cached.path, FALSE))

\* a path that cannot be computed counts as locked
LockedComputed(c, n) ==
    IF ~c.res.ok THEN [st |-> c.st, locked |-> TRUE, raised |-> FALSE]
    ELSE LockedAgainst(c, get_render_path(c.st, n, FALSE), n)

\* compute_proxy_path
compute_proxy_path(s, n) == compute_render_path(s, n, TRUE)

\* get_proxy_render_template
get_proxy_render_template(s, n, wtype) == get_render_template(s, n, wtype, TRUE, TRUE)

\* a query that compares the cached path without computing the path first
render_path_is_locked_uncomputed(s, n) ==
    LockedAgainst(compute_render_path(s, n, FALSE), get_render_path(s, n, FALSE), n)

\* render_path_is_locked
render_path_is_locked(s, n) == LockedComputed(compute_render_path(s, n, FALSE), n)

RECURSIVE SaveNodes(_, _, _)

\* the end of a round of the loop: the knob settings of the node are stored
NodeSaved(r, n, nodes, acc) ==
    SaveNodes([r.st EXCEPT !.tcl_settings[n] = TRUE], nodes,
              [frames |-> acc.frames \o r.frames, visited |-> Append(acc.visited, n)])

\* a round of the loop that resets the path of every node
SaveNode_always_reset(s, n, nodes, acc) ==
    NodeSaved(reset_render_path(s, n, <<>>), n, nodes, acc)

\* a round of the loop: the path is reset where the script has a new path
SaveNode(s, n, nodes, acc) ==
    NodeSaved(IF s.last_known_script[n] # s.script
              THEN reset_render_path(s, n, <<>>) ELSE Done(s, <<>>, FALSE),
              n, nodes, acc)

\* the loop of __on_script_save: exceptions of a reset are swallowed
SaveNodes(s, nodes, acc) ==
    IF nodes = <<>> THEN [st |-> s, frames |-> acc.frames, visited |-> acc.visited]
    ELSE SaveNode(s, Head(nodes), Tail(nodes), acc)

\* __on_script_save
on_script_save(s) ==
    IF s.script = NoScript THEN [st |-> s, frames |-> <<>>, visited |-> <<>>]
    ELSE SaveNodes(s, NodeOrder, [frames |-> <<>>, visited |-> <<>>])

RECURSIVE SetupNodes(_, _, _)

\* the end of a round of the loop: an exception ends the loop
NodeSetUp(r, n, nodes, acc) ==
    IF r.raised
    THEN [st |-> r.st, frames |-> acc.frames \o r.frames,
          visited |-> Append(acc.visited, n), raised |-> TRUE]
    ELSE SetupNodes(r.st, nodes,
                    [frames |-> acc.frames \o r.frames, visited |-> Append(acc.visited, n)])

\* the loop of post_context_change
SetupNodes(s, nodes, acc) ==
    IF nodes = <<>>
    THEN [st |-> s, frames |-> acc.frames, visited |-> acc.visited, raised |-> FALSE]
    ELSE NodeSetUp(setup_new_node(s, Head(nodes)), Head(nodes), Tail(nodes), acc)

\* NukeWriteNode.post_context_change
post_context_change(s) ==
    SetupNodes(populate_script_template(populate_profiles_from_settings(s)),
               NodeOrder, [frames |-> <<>>, visited |-> <<>>])


\* ------------------------------------------------------------------------
\* Initial states: the handler as constructed, the nodes as created or as
\* stored in the document by an earlier session
\* ------------------------------------------------------------------------
EarlierSession == [script |-> ScriptV1, script_template |-> "nuke_script_work",
                   ctx |-> "ctxA", today |-> "d1"]

StoredPath(t, w, output_name) == compute_render_path_from(EarlierSession, t, w, output_name).path

NoTemplateKnobs == [k \in TemplateKnobs |-> NoTemplate]

FreshNode ==
    [profile_name |-> "", write_type |-> "Version", output |-> "",
     cached_path |-> NoPath, cached_proxy_path |-> NoPath,
     last_known_script |-> NoScript, tmpl_knob |-> NoTemplateKnobs, tcl_settings |-> FALSE]

StoredExrNode(saved) ==
    [profile_name |-> "Exr", write_type |-> "Version", output |-> "main",
     cached_path |-> StoredPath("nuke_render_exr", "1920", "main"),
     cached_proxy_path |-> StoredPath("nuke_render_proxy", "960", "main"),
     last_known_script |-> ScriptV1,
     tmpl_knob |-> [k \in TemplateKnobs |->
                      CASE k = "render_template" -> "nuke_render_exr"
                        [] k = "proxy_render_template" -> "nuke_render_proxy"
                        [] OTHER -> "nuke_render_elem"],
     tcl_settings |-> saved]

StoredDpxNode ==
    [profile_name |-> "Dpx", write_type |-> "Version", output |-> "",
     cached_path |-> StoredPath("nuke_render_dpx", "1920", ""),
     cached_proxy_path |-> StoredPath("nuke_render_dpx", "1920", ""),
     last_known_script |-> ScriptV1,
     tmpl_knob |-> [k \in TemplateKnobs |->
                      CASE k = "render_template" -> "nuke_render_dpx"
                        [] k = "proxy_render_template" -> NoTemplate
                        [] OTHER -> "nuke_render_elem"],
     tcl_settings |-> FALSE]

StoredElementNode ==
    [profile_name |-> "Exr", write_type |-> "Element", output |-> "main",
     cached_path |-> StoredPath("nuke_render_elem", "1920", "main"),
     cached_proxy_path |-> NoPath,
     last_known_script |-> ScriptV1,
     tmpl_knob |-> [k \in TemplateKnobs |->
                      CASE k = "render_template" -> "nuke_render_exr"
                        [] k = "proxy_render_template" -> "nuke_render_proxy"
                        [] OTHER -> "nuke_render_elem"],
     tcl_settings |-> FALSE]

NodeSnapshots == {FreshNode, StoredExrNode(FALSE), StoredExrNode(TRUE),
                  StoredDpxNode, StoredElementNode}

\* no path was asked for
NoResult == [ok |-> FALSE, path |-> NoPath, err |-> "none"]

NoOp == [op |-> "init", node |-> "", frames |-> <<>>, raised |-> FALSE,
         locked |-> FALSE, visited |-> <<>>, prev_op |-> "", prev_node |-> "",
         res |-> NoResult]

Op(name, n, frames, raised, locked, visited) ==
    [op |-> name, node |-> n, frames |-> frames, raised |-> raised,
     locked |-> locked, visited |-> visited,
     prev_op |-> lastOp.op, prev_node |-> lastOp.node, res |-> NoResult]

RECURSIVE AllFrames(_)
\* the updates of an invocation in the order they ran: the callbacks
\* delivered inside an update come before it
AllFrames(frames) ==
    IF frames = <<>> THEN <<>>
    ELSE Head(frames).nested \o <<Head(frames)>> \o AllFrames(Tail(frames))

RECURSIVE Reported(_, _)
\* a guarded update reports nothing
Reported(rep, frames) ==
    IF frames = <<>> THEN rep
    ELSE LET f == Head(frames)
         IN  Reported(IF f.outcome \in {"rendering", "reentrant"} THEN rep
                      ELSE [rep EXCEPT ![f.node][f.is_proxy] = f.outcome],
                      Tail(frames))

\* the record of an invocation
Log(name, n, frames, raised, locked, visited) ==
    /\ lastOp' = Op(name, n, frames, raised, locked, visited)
    /\ reported' = Reported(reported, AllFrames(frames))

\* the record of a call that returns a path or fails
LogResult(name, n, res) ==
    /\ lastOp' = [Op(name, n, <<>>, ~res.ok, FALSE, <<>>) EXCEPT !.res = res]
    /\ reported' = reported

\* the state when the handler has been constructed (__init__) in a script
\* whose nodes carry the knob values of the snapshots
Constructed(p, c, snap) ==
    [script |-> p, ctx |-> c, today |-> "d1", proxy |-> FALSE,
     width |-> [n \in Nodes |-> "1920"],
     profile_name |-> [n \in Nodes |-> snap[n].profile_name],
     write_type |-> [n \in Nodes |-> snap[n].write_type],
     output |-> [n \in Nodes |-> snap[n].output],
     cached_path |-> [n \in Nodes |-> snap[n].cached_path],
     cached_proxy_path |-> [n \in Nodes |-> snap[n].cached_proxy_path],
     last_known_script |-> [n \in Nodes |-> snap[n].last_known_script],
     constructed |-> [n \in Nodes |-> FALSE],
     path_warning |-> [n \in Nodes |-> NoWarning],
     reset_visible |-> [n \in Nodes |-> FALSE],
     tmpl_knob |-> [n \in Nodes |-> snap[n].tmpl_knob],
     tcl_settings |-> [n \in Nodes |-> snap[n].tcl_settings],
     profiles |-> ProfileTable(SettingWriteNodes(c), <<>>),
     profile_names |-> ProfileNameList(SettingWriteNodes(c), <<>>),
     script_template |-> SettingScriptTemplate(c),
     rendering |-> {},
     memo |-> [n \in Nodes |-> [b \in BOOLEAN |-> NoMemo]],
     preview_cache |-> {},
     upd_render |-> FALSE, upd_proxy |-> FALSE]

\* add_callbacks sets up the nodes that exist when the app is initialised;
\* a node with the knobs of FreshNode is one the host creates afterwards and
\* whose creation callback has not run yet
ExistingNodes(snap) == SelectSeq(NodeOrder, LAMBDA n : snap[n] # FreshNode)

add_callbacks(s, snap) == SetupNodes(s, ExistingNodes(snap), [frames |-> <<>>, visited |-> <<>>]).st

InitFrom(scripts, snaps) ==
    /\ \E p \in scripts, c \in Contexts, snap \in snaps :
          \E s \in {add_callbacks(Constructed(p, c, snap), snap)} :
              /\ script = s.script /\ ctx = s.ctx /\ today = s.today /\ proxy = s.proxy
              /\ width = s.width /\ profile_name = s.profile_name
              /\ write_type = s.write_type /\ output = s.output
              /\ cached_path = s.cached_path /\ cached_proxy_path = s.cached_proxy_path
              /\ last_known_script = s.last_known_script /\ constructed = s.constructed
              /\ path_warning = s.path_warning /\ reset_visible = s.reset_visible
              /\ tmpl_knob = s.tmpl_knob /\ tcl_settings = s.tcl_settings
              /\ profiles = s.profiles /\ profile_names = s.profile_names
              /\ script_template = s.script_template /\ rendering = s.rendering
              /\ memo = s.memo /\ preview_cache = s.preview_cache
              /\ upd_render = s.upd_render /\ upd_proxy = s.upd_proxy
    /\ reported = [n \in Nodes |-> [b \in BOOLEAN |-> "none"]]
    /\ lastOp = NoOp
    /\ steps = 0

\* the program is in state s
StateIs(s) ==
    /\ script = s.script /\ ctx = s.ctx /\ today = s.today /\ proxy = s.proxy
    /\ width = s.width /\ profile_name = s.profile_name
    /\ write_type = s.write_type /\ output = s.output
    /\ cached_path = s.cached_path /\ cached_proxy_path = s.cached_proxy_path
    /\ last_known_script = s.last_known_script /\ constructed = s.constructed
    /\ path_warning = s.path_warning /\ reset_visible = s.reset_visible
    /\ tmpl_knob = s.tmpl_knob /\ tcl_settings = s.tcl_settings
    /\ profiles = s.profiles /\ profile_names = s.profile_names
    /\ script_template = s.script_template /\ rendering = s.rendering
    /\ memo = s.memo /\ preview_cache = s.preview_cache
    /\ upd_render = s.upd_render /\ upd_proxy = s.upd_proxy

\* one write node in the script; the other is created later, if at all
Init == InitFrom({NoScript, ScriptV1}, {snap \in [Nodes -> NodeSnapshots] : snap["n2"] = FreshNode})

\* two write nodes of an earlier session in a saved script
InitNested == InitFrom({ScriptV1}, [Nodes -> {StoredExrNode(FALSE), StoredDpxNode}])

\* two write nodes in the script
InitBulk == InitFrom({ScriptV1, NoScript},
                     [Nodes -> {FreshNode, StoredExrNode(FALSE), StoredDpxNode}])

\* ------------------------------------------------------------------------
\* Actions: one per callback of the host and per host event
\* ------------------------------------------------------------------------
Calls(ns) == [node : ns, is_proxy : BOOLEAN]

RECURSIVE SeqsUpTo(_, _)
SeqsUpTo(set, k) ==
    IF k = 0 THEN {<<>>}
    ELSE LET shorter == SeqsUpTo(set, k - 1)
         IN  shorter \cup {Append(q, x) : q \in shorter, x \in set}

NestedCalls(ns) == SeqsUpTo(Calls(ns), MaxNested)

Step == steps < MaxSteps /\ steps' = steps + 1

\* the host creates or loads the node: on_node_created_gizmo_callback
NodeCreated(n) ==
    /\ Step
    /\ \E r \in {setup_new_node(S, n)} :
          Commit(r.st) /\ Log("setup", n, r.frames, r.raised, FALSE, <<>>)

\* the host evaluates the file knob of the internal write node
ComputePath(n, is_proxy, calls) ==
    /\ Step
    /\ \E r \in {on_compute_path(S, n, is_proxy, calls)} :
          Commit(r.st) /\ Log("compute", n, r.frames, r.raised, FALSE, <<>>)

\* the user presses Reset Path, or another app calls reset_node_render_path
ResetPath(n, calls) ==
    /\ Step
    /\ \E r \in {reset_render_path(S, n, calls)} :
          Commit(r.st) /\ Log("reset", n, r.frames, r.raised, FALSE, <<>>)

\* another app asks is_node_render_path_locked
QueryLocked(n) ==
    /\ Step
    /\ \E r \in {render_path_is_locked(S, n)} :
          Commit(r.st) /\ Log("is_locked", n, <<>>, r.raised, r.locked, <<>>)

\* the user edits the output name
OutputChanged(n, v) ==
    /\ Step
    /\ v # output[n]
    /\ \E r \in {on_output_changed(S, n, v)} :
          Commit(r.st) /\ Log("output", n, r.frames, r.raised, FALSE, <<>>)

\* the user selects a profile from the list
ProfileChanged(n, name) ==
    /\ Step
    /\ \E r \in {on_profile_changed(S, n, name)} :
          Commit(r.st) /\ Log("profile", n, r.frames, r.raised, FALSE, <<>>)

\* the script is saved, to its own path or to a new one
ScriptSaved(p) ==
    /\ Step
    /\ p # NoScript
    /\ \E r \in {on_script_save([S EXCEPT !.script = p])} :
          Commit(r.st) /\ Log("save", "", r.frames, FALSE, FALSE, r.visited)

\* the engine changes context
ContextChanged(c) ==
    /\ Step
    /\ c # ctx
    /\ \E r \in {post_context_change([S EXCEPT !.ctx = c])} :
          Commit(r.st) /\ Log("context", "", r.frames, r.raised, FALSE, r.visited)

\* what stops a render callback: nothing, the folder of the output that
\* cannot be created, or the script the user attached to the node
RenderOutcomes == {"ok", "folders", "script"}

\* on_before_render_gizmo_callback: the folders are created, then the node
\* joins the rendering set, then the user's script runs
on_before_render(s, n, outcome) ==
    [st |-> IF outcome = "folders" THEN s ELSE [s EXCEPT !.rendering = @ \cup {n}],
     raised |-> outcome # "ok"]

\* an after-render callback that runs the user's script first
on_after_render_script_first(s, n, outcome) ==
    [st |-> IF outcome = "script" THEN s ELSE [s EXCEPT !.rendering = @ \ {n}],
     raised |-> outcome = "script"]

\* on_after_render_gizmo_callback: the node leaves the rendering set, then
\* the user's script runs
on_after_render(s, n, outcome) ==
    [st |-> [s EXCEPT !.rendering = @ \ {n}],
     raised |-> outcome = "script"]

\* the record of a render callback
LogRender(name, n, outcome, raised) ==
    /\ lastOp' = [Op(name, n, <<>>, raised, FALSE, <<>>)
                     EXCEPT !.res = [ok |-> ~raised, path |-> NoPath, err |-> outcome]]
    /\ reported' = reported

\* the host is about to render the node
BeforeRender(n) ==
    /\ Step
    /\ n \notin rendering
    /\ \E outcome \in RenderOutcomes :
          \E r \in {on_before_render(S, n, outcome)} :
             Commit(r.st) /\ LogRender("before_render", n, outcome, r.raised)

\* the host has finished rendering the node
AfterRender(n) ==
    /\ Step
    /\ n \in rendering
    /\ \E outcome \in RenderOutcomes \ {"folders"} :
          \E r \in {on_after_render(S, n, outcome)} :
             Commit(r.st) /\ LogRender("after_render", n, outcome, r.raised)

\* the format of the input of a node changes
WidthChanged(n, w) ==
    /\ Step
    /\ w # width[n]
    /\ Commit([S EXCEPT !.width[n] = w])
    /\ Log("width", n, <<>>, FALSE, FALSE, <<>>)

\* midnight passes
DateChanged ==
    /\ Step
    /\ today = "d1"
    /\ Commit([S EXCEPT !.today = "d2"])
    /\ Log("date", "", <<>>, FALSE, FALSE, <<>>)

\* the user toggles the proxy mode of the script
ProxyToggled ==
    /\ Step
    /\ Commit([S EXCEPT !.proxy = ~@])
    /\ Log("proxy", "", <<>>, FALSE, FALSE, <<>>)

\* another app (the publisher) asks for the render path of a node that
\* has been set up: compute_render_path
ComputeRenderPath(n) ==
    /\ Step
    /\ constructed[n]
    /\ \E r \in {compute_render_path(S, n, FALSE)} :
          Commit(r.st) /\ LogResult("compute_render_path", n, r.res)

\* another app asks for the proxy render path: compute_proxy_path
ComputeProxyPath(n) ==
    /\ Step
    /\ constructed[n]
    /\ \E r \in {compute_proxy_path(S, n)} :
          Commit(r.st) /\ LogResult("compute_proxy_path", n, r.res)

\* another app asks for the proxy render template of a node:
\* get_proxy_render_template; the answer is recorded as the name of the
\* template, empty where the call returns none
GetProxyRenderTemplate(n) ==
    /\ Step
    /\ \E r \in {get_proxy_render_template(S, n, write_type[n])} :
          /\ Commit(r.st)
          /\ lastOp' = [Op("get_proxy_render_template", n, <<>>, FALSE, FALSE, <<>>)
                           EXCEPT !.res = [ok |-> r.tmpl # NoTemplate,
                                           path |-> <<r.tmpl>>, err |-> ""]]
          /\ reported' = reported

NoCalls == <<>>

\* one write node, every callback and host event, no re-entrant evaluation
Next ==
    \/ NodeCreated("n1")
    \/ \E b \in BOOLEAN : ComputePath("n1", b, NoCalls)
    \/ ResetPath("n1", NoCalls)
    \/ QueryLocked("n1")
    \/ \E v \in OutputNames : OutputChanged("n1", v)
    \/ \E name \in {"Exr", "Dpx"} : ProfileChanged("n1", name)
    \/ BeforeRender("n1")
    \/ AfterRender("n1")
    \/ \E w \in Widths : WidthChanged("n1", w)
    \/ \E p \in Scripts : ScriptSaved(p)
    \/ \E c \in Contexts : ContextChanged(c)
    \/ DateChanged
    \/ ProxyToggled

Spec == Init /\ [][Next]_vars

\* two write nodes whose file knobs the host evaluates re-entrantly
NestedStep == steps < MaxNestedSteps

NextNested ==
    \/ \E b \in BOOLEAN, calls \in NestedCalls(Nodes) :
          NestedStep /\ ComputePath("n1", b, calls)
    \/ \E calls \in NestedCalls(Nodes) : NestedStep /\ ResetPath("n1", calls)
    \/ \E w \in Widths : NestedStep /\ WidthChanged("n1", w)
    \/ NestedStep /\ ProxyToggled

SpecNested == InitNested /\ [][NextNested]_vars

\* two write nodes and the operations that visit every node
NextBulk ==
    \/ \E n \in Nodes : NodeCreated(n)
    \/ \E n \in Nodes, b \in BOOLEAN : ComputePath(n, b, NoCalls)
    \/ \E n \in Nodes : ResetPath(n, NoCalls)
    \/ \E p \in Scripts : ScriptSaved(p)
    \/ \E c \in Contexts : ContextChanged(c)
    \/ \E n \in Nodes : BeforeRender(n)
    \/ \E n \in Nodes : AfterRender(n)

SpecBulk == InitBulk /\ [][NextBulk]_vars

\* one write node whose paths other apps ask for while the user works
InitCompute ==
    InitFrom({NoScript, ScriptV1, ScriptTmp, ScriptOut},
             {snap \in [Nodes -> NodeSnapshots] : snap["n2"] = FreshNode})

NextCompute ==
    \/ ComputeRenderPath("n1")
    \/ ComputeProxyPath("n1")
    \/ NodeCreated("n1")
    \/ \E b \in BOOLEAN : ComputePath("n1", b, NoCalls)
    \/ \E v \in OutputNames : OutputChanged("n1", v)
    \/ \E p \in Scripts \cup {ScriptOut} : ScriptSaved(p)
    \/ \E c \in Contexts : ContextChanged(c)
    \/ \E w \in Widths : WidthChanged("n1", w)
    \/ DateChanged
    \/ \E name \in {"Exr", "Dpx", "Jpg"} : ProfileChanged("n1", name)

SpecCompute == InitCompute /\ [][NextCompute]_vars

\* the handler is constructed and the host then loads or pastes two nodes:
\* their knobs carry the stored values, their creation callbacks are pending
InitLoad ==
    /\ \E p \in {NoScript, ScriptV1}, c \in Contexts, snap \in [Nodes -> NodeSnapshots] :
          StateIs(Constructed(p, c, snap))
    /\ reported = [n \in Nodes |-> [b \in BOOLEAN |-> "none"]]
    /\ lastOp = NoOp
    /\ steps = 0

\* what the host delivers for a node while and after it is loaded
NextLoad ==
    \/ NodeCreated("n1")
    \/ \E b \in BOOLEAN : ComputePath("n1", b, NoCalls)
    \/ \E v \in OutputNames : OutputChanged("n1", v)
    \/ \E name \in {"Exr", "Dpx"} : ProfileChanged("n1", name)
    \/ \E p \in {ScriptV1, ScriptV2} : ScriptSaved(p)
    \/ BeforeRender("n1")
    \/ AfterRender("n1")
    \/ GetProxyRenderTemplate("n1")

SpecLoad == InitLoad /\ [][NextLoad]_vars

\* the handler is constructed in a script with one write node, or with none,
\* and the host has created or loaded node n1 and run its creation callback
InitQuery ==
    /\ \E p \in {NoScript, ScriptV1, ScriptTmp}, c \in Contexts,
          snap \in {sn \in [Nodes -> NodeSnapshots] : sn["n2"] = FreshNode} :
          \E r \in {setup_new_node(add_callbacks(Constructed(p, c, snap), snap), "n1")} :
              /\ StateIs(r.st)
              /\ reported = Reported([n \in Nodes |-> [b \in BOOLEAN |-> "none"]],
                                     AllFrames(r.frames))
    /\ lastOp = NoOp
    /\ steps = 0

\* another app asks whether the path of the node is locked while the user
\* works on the node and renders it
NextQuery ==
    \/ QueryLocked("n1")
    \/ ResetPath("n1", NoCalls)
    \/ \E v \in OutputNames : OutputChanged("n1", v)
    \/ \E name \in {"Exr", "Dpx", "Jpg"} : ProfileChanged("n1", name)
    \/ \E p \in Scripts : ScriptSaved(p)
    \/ \E c \in Contexts : ContextChanged(c)
    \/ BeforeRender("n1")
    \/ AfterRender("n1")

SpecQuery == InitQuery /\ [][NextQuery]_vars

\* ------------------------------------------------------------------------
\* Properties
\* ------------------------------------------------------------------------
\* every update of the last invocation, in the order they ran
Frames == AllFrames(lastOp.frames)

\* the cached path and the candidate disagree under a template: the fields
\* of the cached path cannot be extracted, or the two field sets differ in
\* their names or in the value of a field that is not volatile
Diverged(t, cached, candidate) ==
    LET prev == get_fields(t, cached)
        new == get_fields(t, candidate)
    IN  \/ ~prev.ok
        \/ /\ new.ok
           /\ \/ DOMAIN prev.fields # DOMAIN new.fields
              \/ \E k \in DOMAIN new.fields \ {"width", "height", "YYYY", "MM", "DD"} :
                    prev.fields[k] # new.fields[k]

\* the path the node would get for a mode if it were computed now
ComputedNow(n, is_proxy) == compute_render_path(S, n, is_proxy).res

\* the last invocation asked for the lock of a constructed node right after
\* resetting it
LockAskedAfterReset ==
    /\ lastOp.op = "is_locked"
    /\ lastOp.prev_op = "reset"
    /\ lastOp.prev_node = lastOp.node
    /\ constructed[lastOp.node]

\* C1 as stated: render_path_is_locked called immediately after
\* reset_render_path on the same node returns false.
C1_ResetClearsLock ==
    LockAskedAfterReset => (~lastOp.raised /\ ~lastOp.locked)

\* C1 amended: render_path_is_locked called immediately after
\* reset_render_path on the same node returns false provided the node is
\* not rendering and its full-resolution path can be computed.
C1_ResetClearsLockWhenComputable ==
    (/\ LockAskedAfterReset
     /\ lastOp.node \notin rendering
     /\ ComputedNow(lastOp.node, FALSE).ok)
    => (~lastOp.raised /\ ~lastOp.locked)

\* C1 witness: the lock is asked after a reset in a context the stored path
\* of the node does not belong to, and the answer is false
C1_Witness ==
    /\ LockAskedAfterReset
    /\ lastOp.node \notin rendering
    /\ ComputedNow(lastOp.node, FALSE).ok
    /\ ShotOf(ctx) = "shotB"
    /\ cached_path[lastOp.node] = ComputedNow(lastOp.node, FALSE).path
    /\ ~lastOp.locked

\* C2: a non-forced update whose computation succeeds, whose cached path is
\* not empty and whose cached path and candidate diverge discards the
\* candidate: the knob keeps the cached path, the cached path is returned,
\* the reset button flag is raised and a warning is produced.
C2_DivergedPathIsLocked ==
    \A i \in DOMAIN Frames :
        LET f == Frames[i]
        IN  (/\ ~f.force
             /\ f.outcome \in {"ok", "locked", "raised"}
             /\ f.cached_in # NoPath
             /\ f.tmpl # NoTemplate
             /\ Diverged(f.tmpl, f.cached_in, f.candidate))
            => (/\ f.outcome = "locked"
                /\ ~f.raised
                /\ f.ret = f.cached_in
                /\ f.knob_out = f.cached_in
                /\ f.reset_button
                /\ f.warning # NoWarning)

\* C2 witness: a non-forced update found a candidate whose fields differ
\* from those of the cached path and kept the cached path
C2_Witness ==
    \E i \in DOMAIN Frames :
        LET f == Frames[i]
        IN  /\ ~f.force /\ f.outcome = "locked"
            /\ f.cached_in # NoPath /\ f.tmpl # NoTemplate
            /\ get_fields(f.tmpl, f.cached_in).ok
            /\ Diverged(f.tmpl, f.cached_in, f.candidate)
            /\ f.knob_out = f.cached_in /\ f.candidate # f.cached_in

\* C3 as stated: a non-forced update whose candidate differs from the cached
\* path in volatile fields only (width, height, date) is not locked: no
\* warning, no reset button, and the knob takes the candidate.
C3_VolatileFieldsExempt ==
    \A i \in DOMAIN Frames :
        LET f == Frames[i]
        IN  (/\ ~f.force
             /\ f.outcome \in {"ok", "locked"}
             /\ f.cached_in # NoPath
             /\ f.tmpl # NoTemplate
             /\ f.candidate # f.cached_in
             /\ get_fields(f.tmpl, f.cached_in).ok
             /\ get_fields(f.tmpl, f.candidate).ok
             /\ ~Diverged(f.tmpl, f.cached_in, f.candidate))
            => (/\ f.outcome = "ok"
                /\ ~f.reset_button
                /\ f.warning = NoWarning
                /\ f.knob_out = f.candidate)

\* the last invocation force-reset a mode of a node
ForcedIn(op, n, is_proxy) ==
    \E i \in DOMAIN AllFrames(op.frames) :
        LET f == AllFrames(op.frames)[i]
        IN  f.node = n /\ f.is_proxy = is_proxy /\ f.force

\* C4 as stated: a mode of a node that an update reported locked is not
\* reported valid again unless a forced reset of that mode ran.
C4_LockedUntilReset ==
    [][\A n \in Nodes, m \in BOOLEAN :
          (reported[n][m] = "locked" /\ reported'[n][m] = "ok")
          => ForcedIn(lastOp', n, m)]_vars

\* C5 as stated: every callback for the node and mode of a running update
\* returns the cached path without computing and without touching the node.
C5_NestedCallsReturnCached ==
    \A i \in DOMAIN lastOp.frames :
        LET o == lastOp.frames[i]
        IN  \A j \in DOMAIN o.nested :
                LET f == o.nested[j]
                IN  (f.node = o.node /\ f.is_proxy = o.is_proxy)
                    => (f.outcome = "reentrant" /\ f.ret = f.cached_in /\ ~f.modified)

\* C6: while a node stays in the rendering set every update of it returns
\* the cached path of its mode, and the cached paths, the last known script,
\* the settings cache, the warning and the reset button of the node stay as
\* they are.
C6_RenderingFreezesNode ==
    [][\A n \in Nodes :
          (n \in rendering /\ n \in rendering')
          => /\ cached_path'[n] = cached_path[n]
             /\ cached_proxy_path'[n] = cached_proxy_path[n]
             /\ last_known_script'[n] = last_known_script[n]
             /\ memo'[n] = memo[n]
             /\ path_warning'[n] = path_warning[n]
             /\ reset_visible'[n] = reset_visible[n]
             /\ \A i \in DOMAIN AllFrames(lastOp'.frames) :
                   LET f == AllFrames(lastOp'.frames)[i]
                   IN  f.node = n =>
                          /\ f.outcome = "rendering"
                          /\ f.ret = CachedKnob(S, n, f.is_proxy)]_vars

\* C6 witness: the script was saved under a new name while a node was
\* rendering; its reset returned the cached path although the path computed
\* from the new name is another one
C6_Witness ==
    /\ lastOp.op = "save"
    /\ \E i \in DOMAIN Frames :
          LET f == Frames[i]
          IN  /\ f.node \in rendering /\ f.force /\ f.outcome = "rendering"
              /\ ComputedNow(f.node, f.is_proxy).ok
              /\ ComputedNow(f.node, f.is_proxy).path # f.ret
              /\ f.ret # NoPath

\* the save handler reset a node: its last known script was not the saved one
SaveReset(n) ==
    \E i \in DOMAIN lastOp.frames :
        lastOp.frames[i].node = n /\ lastOp.frames[i].lks_in # script

\* C7 as stated: after a save every constructed node whose last known script
\* differed from the saved path has, in both modes, the path computed from
\* the saved script, and the saved path as its last known script.
C7_SaveResetsEveryNode ==
    lastOp.op = "save" =>
        \A n \in Nodes, m \in BOOLEAN :
            (SaveReset(n) /\ constructed[n])
            => (/\ ComputedNow(n, m).ok
                /\ CachedKnob(S, n, m) = ComputedNow(n, m).path
                /\ last_known_script[n] = script)

\* C7 amended: after a save every node that is not rendering and whose last
\* known script differed from the saved path has, in each mode whose path
\* can be computed, the path computed from the saved script, and the saved
\* path as its last known script.
C7_SaveResetsComputableModes ==
    lastOp.op = "save" =>
        \A n \in Nodes, m \in BOOLEAN :
            (SaveReset(n) /\ n \notin rendering /\ ComputedNow(n, m).ok)
            => (/\ CachedKnob(S, n, m) = ComputedNow(n, m).path
                /\ last_known_script[n] = script)

\* C7 witness: the script was saved as its next version and a constructed
\* node whose paths were those of the first version has those of the second
C7_Witness ==
    /\ lastOp.op = "save"
    /\ script = ScriptV2
    /\ \E n \in Nodes :
          /\ SaveReset(n) /\ constructed[n] /\ n \notin rendering
          /\ \A m \in BOOLEAN :
                /\ ComputedNow(n, m).ok
                /\ CachedKnob(S, n, m) = ComputedNow(n, m).path
                /\ "v002" \in {CachedKnob(S, n, m)[k] : k \in DOMAIN CachedKnob(S, n, m)}
          /\ last_known_script[n] = ScriptV2

\* C8 as stated: a context change that runs to its end force-resets both
\* modes of every node.
C8_ContextChangeResetsEveryNode ==
    (lastOp.op = "context" /\ ~lastOp.raised) =>
        \A n \in Nodes, m \in BOOLEAN : ForcedIn(lastOp, n, m)

\* C9 as stated: an update whose path computation fails does not raise,
\* returns the cached path, leaves the knob and the last known script as they
\* were, produces a warning and does not raise the reset button flag.
C9_FailureNeverRaises ==
    \A i \in DOMAIN Frames :
        LET f == Frames[i]
        IN  f.outcome = "error"
            => (/\ ~f.raised
                /\ f.ret = f.cached_in
                /\ f.knob_out = f.cached_in
                /\ f.lks_out = f.lks_in
                /\ f.warning # NoWarning
                /\ ~f.reset_button)

\* C10 as stated: a save and a context change visit every node, whatever
\* happens while one of them is processed.
C10_BulkVisitsEveryNode ==
    lastOp.op \in {"save", "context"} => lastOp.visited = NodeOrder

\* the last invocation was a call of compute_render_path on a node whose
\* profile is not among the loaded ones
AskedWithoutProfile ==
    /\ lastOp.op = "compute_render_path"
    /\ ~HasProfileSettings(S, lastOp.node)

\* the knob that names the full-resolution template of a node
RenderKnobOf(n) ==
    IF write_type[n] = "Element" THEN "element_render_template" ELSE "render_template"

\* the output name the computation reads for a template
OutputFor(n, t) == IF t # NoTemplate /\ HasOutputKey(t) THEN output[n] ELSE ""

\* C11 as stated: compute_render_path on a node whose profile is not loaded
\* does not fail and returns the cached path of the node.
C11_UnknownProfileReturnsCached ==
    AskedWithoutProfile
    => (lastOp.res.ok /\ lastOp.res.path = cached_path[lastOp.node])

\* C11 amended: compute_render_path on a node whose profile is not loaded
\* computes the path from the template named by the node's template name
\* knob, the current script, context, output name, dimensions and date.
C11_UnknownProfileUsesCachedTemplate ==
    AskedWithoutProfile
    => lastOp.res =
          compute_render_path_from(S,
              get_template_by_name(tmpl_knob[lastOp.node][RenderKnobOf(lastOp.node)]),
              width[lastOp.node],
              OutputFor(lastOp.node,
                  get_template_by_name(tmpl_knob[lastOp.node][RenderKnobOf(lastOp.node)])))

\* C11 witness: the path was asked for a node whose profile is gone, and the
\* call computed a path that is not the cached one
C11_Witness ==
    /\ AskedWithoutProfile
    /\ profile_name[lastOp.node] # ""
    /\ cached_path[lastOp.node] # NoPath
    /\ lastOp.res.ok
    /\ lastOp.res.path # cached_path[lastOp.node]

\* the node has no proxy render template: its profile defines none, or its
\* profile is gone and the knob names none
NoProxyTemplate(n) == get_template(S, n, "proxy_render_template").tmpl = NoTemplate

\* compute_proxy_path returned what compute_render_path returns
ProxyPathFallsBack ==
    (lastOp.op = "compute_proxy_path" /\ NoProxyTemplate(lastOp.node))
    => lastOp.res = ComputedNow(lastOp.node, FALSE)

\* the decision of a full-resolution update for a cached path and a candidate
FullResLocked(f) ==
    LockedUnder([st |-> S, tmpl |-> f.tmpl], f.candidate, f.cached_in).locked

\* a proxy update that is not forced decided as a full-resolution update
\* decides for the same cached path and candidate
ProxyUpdateFallsBack ==
    \A i \in DOMAIN Frames :
        LET f == Frames[i]
        IN  (/\ f.is_proxy /\ ~f.force
             /\ NoProxyTemplate(f.node)
             /\ f.outcome \in {"ok", "locked"})
            => (/\ f.outcome = (IF FullResLocked(f) THEN "locked" ELSE "ok")
                /\ f.knob_out = (IF FullResLocked(f) /\ f.cached_in # NoPath
                                 THEN f.cached_in ELSE f.candidate))

\* C12 as stated: without a proxy render template compute_proxy_path equals
\* compute_render_path, and a proxy update reaches the cache and lock
\* decision of a full-resolution update with the same cached path.
C12_ProxyFallsBackToFullRes == ProxyPathFallsBack /\ ProxyUpdateFallsBack

\* the last invocation was a call of compute_render_path or compute_proxy_path
PathAsked == lastOp.op \in {"compute_render_path", "compute_proxy_path"}

\* the template the call computed the path from
AskedTemplate ==
    gather_render_settings(S, lastOp.node, lastOp.op = "compute_proxy_path").tmpl

\* the output keys of a template
OutputKeys(t) == {"output", "channel"} \cap TemplateKeys(t)

\* C13: in a work file, for a node with an empty output name and a template
\* with an output (or channel) key, compute_render_path fails with the error
\* that an output name is required if the key is not optional; if the key is
\* optional it succeeds and the path carries no value for the key, also when
\* the fields of the script path have one.
C13_OutputNameRequirement ==
    (/\ PathAsked
     /\ output[lastOp.node] = ""
     /\ AskedTemplate # NoTemplate
     /\ DOMAIN ScriptFields(S) # {})
    => \A k \in OutputKeys(AskedTemplate) :
          IF is_optional(AskedTemplate, k)
          THEN /\ lastOp.res.ok
               /\ get_fields(AskedTemplate, lastOp.res.path).ok
               /\ k \notin DOMAIN get_fields(AskedTemplate, lastOp.res.path).fields
          ELSE ~lastOp.res.ok /\ lastOp.res.err = "output_required"

\* C13 witness: the script path carries an output name, the node has none
\* and its template has an optional output key; the path was computed
\* without the output name of the script
C13_Witness ==
    /\ PathAsked
    /\ output[lastOp.node] = ""
    /\ AskedTemplate # NoTemplate
    /\ "output" \in DOMAIN ScriptFields(S)
    /\ "output" \in TemplateKeys(AskedTemplate)
    /\ is_optional(AskedTemplate, "output")
    /\ lastOp.res.ok
    /\ ScriptFields(S)["output"] \notin {lastOp.res.path[i] : i \in DOMAIN lastOp.res.path}

\* the output name of a node is not empty and a key of the template
\* rejects it
IllegalOutput(n, t) ==
    /\ t # NoTemplate
    /\ output[n] # ""
    /\ \E k \in OutputKeys(t) : output[n] \notin KeyValues(k)

\* C14: in a work file, with an output name that is not empty and that the
\* output key of the template rejects, compute_render_path fails with the
\* error about illegal characters, and an update does not raise, returns the
\* cached path and leaves the knob as it was.
C14_IllegalOutputName ==
    DOMAIN ScriptFields(S) # {} =>
        /\ (PathAsked /\ IllegalOutput(lastOp.node, AskedTemplate))
           => (~lastOp.res.ok /\ lastOp.res.err = "illegal_characters")
        /\ \A i \in DOMAIN Frames :
              LET f == Frames[i]
              IN  IllegalOutput(f.node, f.tmpl)
                  => (/\ f.outcome = "error"
                      /\ f.warning.err = "illegal_characters"
                      /\ ~f.raised
                      /\ f.ret = f.cached_in
                      /\ f.knob_out = f.cached_in)

\* C14 witness: the user typed an output name with a separator on a node
\* with a cached path; the path was then asked for and the call failed, the
\* cached path being the one of before
C14_Witness ==
    /\ lastOp.op = "compute_render_path"
    /\ lastOp.prev_op = "output"
    /\ lastOp.prev_node = lastOp.node
    /\ output[lastOp.node] = "bad/name"
    /\ lastOp.res.err = "illegal_characters"
    /\ reported[lastOp.node][FALSE] = "error"
    /\ cached_path[lastOp.node] # NoPath
    /\ "bad/name" \notin {cached_path[lastOp.node][i] : i \in DOMAIN cached_path[lastOp.node]}

C16_ComputeIdempotent ==
    [][(/\ PathAsked
        /\ lastOp'.op = lastOp.op
        /\ lastOp'.node = lastOp.node)
       => lastOp'.res = lastOp.res]_vars

\* C16 witness: compute_render_path was called twice in a row on a node and
\* returned a path
C16_Witness ==
    /\ lastOp.op = "compute_render_path"
    /\ lastOp.prev_op = "compute_render_path"
    /\ lastOp.prev_node = lastOp.node
    /\ lastOp.res.ok
    /\ lastOp.res.path # NoPath

\* the template name knobs name a template with an output (or channel) key
\* for the full resolution or for the proxy
UsesOutput(knobs, render_knob) ==
    \E k \in {render_knob, "proxy_render_template"} :
        knobs[k] # NoTemplate /\ HasOutputKey(knobs[k])

\* the step is a profile selection on a constructed node that gives the node
\* another profile
ProfileSwitched ==
    /\ lastOp'.op = "profile"
    /\ constructed[lastOp'.node]
    /\ profile_name'[lastOp'.node] # profile_name[lastOp'.node]

\* the template name knobs of the node name the templates of its profile
TemplatesApplied ==
    tmpl_knob'[lastOp'.node] =
        [k \in TemplateKnobs |->
            get_template_by_name(profiles[profile_name'[lastOp'.node]][k])]

\* C17 as stated: a profile selection that changes the profile of a
\* constructed node applies the templates of the new profile, empties the
\* output name if these templates have no output key, and force-resets both
\* modes.
C17_ProfileChangeResets ==
    [][ProfileSwitched
       => /\ TemplatesApplied
          /\ ~UsesOutput(tmpl_knob'[lastOp'.node], RenderKnobOf(lastOp'.node))
                => output'[lastOp'.node] = ""
          /\ \A m \in BOOLEAN : ForcedIn(lastOp', lastOp'.node, m)]_vars

\* C17 amended: a profile selection that changes the profile of a
\* constructed node applies the templates of the new profile, leaves the
\* output name as it is, and calls reset_render_path: the mode on display is
\* force-reset, then the other mode unless the first reset raised.
C17_ProfileChangeKeepsOutput ==
    [][ProfileSwitched
       => /\ TemplatesApplied
          /\ output'[lastOp'.node] = output[lastOp'.node]
          /\ ForcedIn(lastOp', lastOp'.node, proxy)
          /\ ~lastOp'.raised => ForcedIn(lastOp', lastOp'.node, ~proxy)]_vars

\* C17 witness: a node with an output name and the path of another profile
\* was given a profile whose templates have no output key; both modes were
\* reset to paths of the new template and the output name is still there
C17_Witness ==
    /\ lastOp.op = "profile"
    /\ profile_name[lastOp.node] = "Jpg"
    /\ ~UsesOutput(tmpl_knob[lastOp.node], RenderKnobOf(lastOp.node))
    /\ output[lastOp.node] = "main"
    /\ Len(lastOp.frames) = 2
    /\ \A i \in DOMAIN lastOp.frames :
          /\ lastOp.frames[i].force
          /\ lastOp.frames[i].outcome = "ok"
          /\ lastOp.frames[i].cached_in # NoPath
          /\ lastOp.frames[i].cached_in[1] # "jpg"
          /\ lastOp.frames[i].knob_out[1] = "jpg"

\* C18 as stated: a change of the output name of a constructed node
\* force-resets both modes of the node.
C18_OutputChangeResets ==
    (lastOp.op = "output" /\ constructed[lastOp.node])
    => \A m \in BOOLEAN : ForcedIn(lastOp, lastOp.node, m)

\* the step left the cached paths, the last known script, the profile and
\* the rendering set membership of a node as they were
Kept(n) ==
    /\ cached_path'[n] = cached_path[n]
    /\ cached_proxy_path'[n] = cached_proxy_path[n]
    /\ last_known_script'[n] = last_known_script[n]
    /\ profile_name'[n] = profile_name[n]
    /\ (n \in rendering') = (n \in rendering)

\* the step delivered one of the given triggers to a node whose construction
\* flag is false (a save is delivered to every node)
Triggered(n, ops) ==
    /\ ~constructed[n]
    /\ lastOp'.op \in ops
    /\ lastOp'.op = "save" \/ lastOp'.node = n

\* C19 as stated: a knob change, a path compute callback, a save or a render
\* start or finish changes nothing of a node whose construction flag is
\* false (but for the output knob, which the host itself has set).
C19_UnconstructedIgnoresTriggers ==
    [][\A n \in Nodes :
          Triggered(n, {"output", "profile", "compute", "save",
                        "before_render", "after_render"})
          => /\ Kept(n)
             /\ lastOp'.op # "output" => output'[n] = output[n]]_vars

\* C19 amended: a knob change and a path compute callback change nothing of
\* a node whose construction flag is false and run no update; a save resets
\* such a node when its last known script is not the saved one, and a render
\* start whose output folders exist or a render finish adds it to or removes
\* it from the rendering set.
C19_UnconstructedIgnoresKnobsAndCompute ==
    [][\A n \in Nodes :
          /\ Triggered(n, {"output", "profile", "compute"})
             => /\ Kept(n)
                /\ lastOp'.op # "output" => output'[n] = output[n]
                /\ lastOp'.frames = <<>>
                /\ path_warning'[n] = path_warning[n]
                /\ memo'[n] = memo[n]
          /\ (Triggered(n, {"save"}) /\ last_known_script[n] # script')
             => ForcedIn(lastOp', n, proxy)
          /\ (Triggered(n, {"before_render"}) /\ lastOp'.res.err # "folders")
             => n \in rendering'
          /\ Triggered(n, {"after_render"}) => n \notin rendering']_vars

\* C19 witness: the host asked for the path of a loaded node before its
\* creation callback ran; no update ran, although the path computed now is
\* not the cached one
C19_Witness ==
    /\ lastOp.op = "compute"
    /\ ~constructed[lastOp.node]
    /\ lastOp.frames = <<>>
    /\ cached_path[lastOp.node] # NoPath
    /\ ComputedNow(lastOp.node, FALSE).ok
    /\ ComputedNow(lastOp.node, FALSE).path # cached_path[lastOp.node]
    /\ path_warning[lastOp.node] = NoWarning

\* C20 as stated: the construction flag of a node is false while its setup
\* runs: the updates that apply the profile inside setup_new_node find it
\* false, and a setup that does not reach its end leaves it false.
C20_FlagSetAfterSetup ==
    lastOp.op = "setup" =>
        /\ \A i \in DOMAIN Frames : ~Frames[i].constructed_in
        /\ lastOp.raised => ~constructed[lastOp.node]

\* the position of the first definition of a name in the configuration
FirstDefinition(defs, name) ==
    CHOOSE i \in DOMAIN defs :
        defs[i].name = name /\ \A j \in 1..(i - 1) : defs[j].name # name

\* C21: after every load of the profile table (construction and every
\* context change) the list of profile names has no duplicates, holds exactly
\* the keys of the table in the order of the configuration, every name has
\* the definition of its first occurrence, and the table holds the profiles
\* of the current configuration only
C21_ProfilesLoadedFromConfiguration ==
    LET defs == SettingWriteNodes(ctx)
    IN  /\ \A i, j \in DOMAIN profile_names :
               i # j => profile_names[i] # profile_names[j]
        /\ {profile_names[i] : i \in DOMAIN profile_names} = DOMAIN profiles
        /\ DOMAIN profiles = {defs[i].name : i \in DOMAIN defs}
        /\ \A i, j \in DOMAIN profile_names :
               i < j => FirstDefinition(defs, profile_names[i])
                           < FirstDefinition(defs, profile_names[j])
        /\ \A name \in DOMAIN profiles :
               profiles[name] = defs[FirstDefinition(defs, name)]

\* the table is reloaded from a configuration that defines a name twice
\* and lacks nothing the previous one had
C21_Witness ==
    /\ lastOp.op = "context"
    /\ ctx = "ctxA"
    /\ Len(SettingWriteNodes(ctx)) > Len(profile_names)
    /\ profiles["Exr"].render_template = "nuke_render_exr"

\* the template the path computer uses for the full resolution of a node
AssociatedTemplate(n) == GatherFull(S, n).tmpl

\* the full-resolution updates of a node in the last invocation
FullResUpdates(n) ==
    SelectSeq(Frames, LAMBDA f : f.node = n /\ ~f.is_proxy
                                 /\ f.outcome \notin {"rendering", "reentrant"})

\* C22 as stated: in every state the cached render path of a node is empty
\* or a path from which the render template now associated with the node
\* extracts fields.
C22_CachedPathMatchesTemplate ==
    \A n \in Nodes :
        \/ cached_path[n] = NoPath
        \/ /\ AssociatedTemplate(n) # NoTemplate
           /\ validate(AssociatedTemplate(n), cached_path[n])

\* C22: an update that computes a path and does not find the node locked
\* leaves a cached path that the template it used can read; an update whose
\* computation fails, or that finds the node locked, leaves the cached path
\* as it was, whether or not the template can read it.
C22_CachedPathMatchesAfterSuccess ==
    \A n \in Nodes :
        FullResUpdates(n) # <<>> =>
            LET f == FullResUpdates(n)[Len(FullResUpdates(n))]
            IN  /\ f.outcome = "ok" =>
                      /\ cached_path[n] = f.ret
                      /\ validate(f.tmpl, cached_path[n])
                /\ f.outcome \in {"error", "locked"} => cached_path[n] = f.cached_in

\* the user selected a profile, the forced recomputation failed and the
\* cached path is one the template of the new profile cannot read
C22_Witness ==
    /\ lastOp.op = "profile"
    /\ FullResUpdates(lastOp.node) # <<>>
    /\ FullResUpdates(lastOp.node)[1].force
    /\ FullResUpdates(lastOp.node)[1].outcome = "error"
    /\ cached_path[lastOp.node] # NoPath
    /\ AssociatedTemplate(lastOp.node) # NoTemplate
    /\ ~validate(AssociatedTemplate(lastOp.node), cached_path[lastOp.node])

\* the last update of the mode a node displays that was not cut short by a
\* guard left the path frozen or locked
DisplayedPathHeld(n) == reported[n][proxy] \in {"error", "locked"}

\* C23 as stated: in every state, a node whose most recent update of the
\* displayed mode left the path frozen by a computation error or locked
\* shows a warning.
C23_HeldPathShowsWarning ==
    \A n \in Nodes : DisplayedPathHeld(n) => path_warning[n].kind # ""

\* the last invocation updated the displayed mode of a node
UpdatedDisplayed(n) ==
    \E i \in DOMAIN Frames :
        /\ Frames[i].node = n
        /\ Frames[i].is_proxy = proxy
        /\ Frames[i].outcome \notin {"rendering", "reentrant"}

\* C23: an update of the mode a node displays that leaves the path frozen
\* or locked shows a warning, and while the script stays in that mode no
\* later invocation (an update of the other mode, the second update of a
\* reset, a guarded early return) clears it; the warning of an update made
\* while the node displayed the other mode is not shown.
C23_WarningOfDisplayedUpdateStays ==
    [][proxy' = proxy =>
         \A n \in Nodes :
             (DisplayedPathHeld(n)' /\ (UpdatedDisplayed(n)' \/ path_warning[n].kind # ""))
                 => path_warning'[n].kind # ""]_vars

\* a reset whose update of the displayed mode failed has also updated the
\* other mode, and the warning of the displayed mode is shown
C23_Witness ==
    /\ lastOp.op = "reset"
    /\ Len(lastOp.frames) = 2
    /\ lastOp.frames[1].is_proxy = proxy
    /\ lastOp.frames[1].outcome = "error"
    /\ lastOp.frames[2].is_proxy # proxy
    /\ lastOp.frames[2].outcome \notin {"rendering", "reentrant"}
    /\ path_warning[lastOp.node].kind = "frozen"

\* C24: after reset_render_path on a node that is not rendering and whose
\* paths can both be computed, the cached full-resolution path is the
\* freshly computed full-resolution path and the cached proxy path is the
\* freshly computed proxy path, whichever mode the node displays and
\* whatever was cached before.
C24_ResetUpdatesBothModes ==
    (/\ lastOp.op = "reset"
     /\ lastOp.node \notin rendering
     /\ ComputedNow(lastOp.node, FALSE).ok
     /\ ComputedNow(lastOp.node, TRUE).ok)
        => /\ ~lastOp.raised
           /\ cached_path[lastOp.node] = ComputedNow(lastOp.node, FALSE).path
           /\ cached_proxy_path[lastOp.node] = ComputedNow(lastOp.node, TRUE).path

\* a node in proxy mode is reset and both of its cached paths change
C24_Witness ==
    /\ lastOp.op = "reset"
    /\ proxy
    /\ lastOp.node \notin rendering
    /\ ComputedNow(lastOp.node, FALSE).ok
    /\ ComputedNow(lastOp.node, TRUE).ok
    /\ Len(lastOp.frames) = 2
    /\ \A i \in 1..2 : /\ lastOp.frames[i].cached_in # NoPath
                        /\ lastOp.frames[i].cached_in # lastOp.frames[i].knob_out

\* the last invocation was compute_render_path or compute_proxy_path
PathComputedFor(op) == op.op \in {"compute_render_path", "compute_proxy_path"}

\* C25 as stated: compute_render_path and compute_proxy_path change no knob
\* and no other state of the node, whether they succeed or fail.
C25_ComputeChangesNothing ==
    [][PathComputedFor(lastOp') =>
         UNCHANGED <<profile_name, write_type, output, cached_path, cached_proxy_path,
                     last_known_script, constructed, path_warning, reset_visible,
                     tmpl_knob, tcl_settings, memo, preview_cache>>]_vars

\* C25: compute_render_path and compute_proxy_path leave the cached paths,
\* the output name, the warning, the last known script and the settings
\* cache as they are, whether they succeed or fail; the one thing they write
\* is a template name knob of the node asked about, which takes the name
\* the loaded profile of the node gives for it.
C25_ComputeWritesTemplateKnobOnly ==
    [][PathComputedFor(lastOp') =>
         /\ UNCHANGED <<profile_name, write_type, output, cached_path, cached_proxy_path,
                        last_known_script, constructed, path_warning, reset_visible,
                        tcl_settings, memo, preview_cache>>
         /\ \A n \in Nodes, k \in TemplateKnobs :
               tmpl_knob'[n][k] # tmpl_knob[n][k] =>
                   /\ n = lastOp'.node
                   /\ HasProfileSettings(S, n)
                   /\ tmpl_knob'[n][k] = profiles[profile_name[n]][k]]_vars

\* the proxy path of a node is computed after a change to a context whose
\* configuration gives the profile of the node a proxy template, and the
\* knob holds the name of that template
C25_Witness ==
    /\ lastOp.op = "compute_proxy_path"
    /\ lastOp.prev_op = "context"
    /\ constructed[lastOp.node]
    /\ profile_name[lastOp.node] = "Jpg"
    /\ tmpl_knob[lastOp.node]["proxy_render_template"] = "nuke_render_proxy"

\* C26 as stated: a callback delivered inside a running update is cut short
\* by the re-entrancy guard only when it is for the node and mode of that
\* update: a callback for another node, or for the other mode, computes.
C26_GuardPerNodeAndMode ==
    \A i \in DOMAIN lastOp.frames :
        LET o == lastOp.frames[i]
        IN  \A j \in DOMAIN o.nested :
                LET f == o.nested[j]
                IN  (f.node # o.node \/ f.is_proxy # o.is_proxy)
                    => f.outcome # "reentrant"

\* C27: whenever no update is executing (in every state between two
\* invocations) both in-progress flags are false, whichever way the updates
\* of the last invocation ended: normal return, guarded early return or
\* exception.
C27_FlagsReleased == ~upd_render /\ ~upd_proxy

\* an update of the last invocation ended with an exception, and no flag
\* is left set
C27_Witness ==
    /\ lastOp.raised
    /\ \E i \in DOMAIN Frames : Frames[i].raised
    /\ ~upd_render /\ ~upd_proxy

\* the update f took the path the computer gives in state s, or its error
Recomputed(f, c) ==
    IF c.ok THEN f.candidate = c.path
    ELSE /\ f.outcome = "error"
         /\ f.warning = FrozenWarning(c.err, f.cached_in)
         /\ f.ret = f.cached_in

\* the update f took what the settings cache held
Reused(f, item) ==
    IF item.err # ""
    THEN /\ f.outcome = "error"
         /\ f.warning = FrozenWarning(item.err, f.cached_in)
         /\ f.ret = f.cached_in
    ELSE /\ f.outcome \in {"ok", "locked"}
         /\ f.candidate = item.path

\* C28: an update that is not forced and finds the context, dimensions,
\* output name and script path recorded for its node and mode unchanged takes
\* the recorded path, or the recorded error as a warning together with the
\* cached path, instead of what the path computer gives; a forced update and
\* an update that finds any of them changed take what the computer gives.
C28_UnchangedInputsReuseRecorded ==
    [][(/\ lastOp'.op \in {"compute", "reset"}
        /\ lastOp'.frames # <<>>
        /\ lastOp'.frames[1].outcome \notin {"rendering", "reentrant"})
       => LET f == lastOp'.frames[1]
              item == memo[f.node][f.is_proxy]
              entry == MemoEntry(S, gather_render_settings(S, f.node, f.is_proxy), script)
          IN  IF ~f.force /\ item.has /\ item.entry = entry
              THEN Reused(f, item)
              ELSE Recomputed(f, compute_render_path(S, f.node, f.is_proxy).res)]_vars

\* an update took a recorded path that the path computer would no longer give
C28_Witness ==
    /\ lastOp.op = "compute"
    /\ lastOp.frames # <<>>
    /\ lastOp.frames[1].outcome \in {"ok", "locked"}
    /\ memo[lastOp.node][lastOp.frames[1].is_proxy].path = lastOp.frames[1].candidate
    /\ ComputedNow(lastOp.node, lastOp.frames[1].is_proxy).ok
    /\ ComputedNow(lastOp.node, lastOp.frames[1].is_proxy).path # lastOp.frames[1].candidate

\* the program state with the settings cache dropped
WithoutMemo(s) == [s EXCEPT !.memo = [n \in Nodes |-> [b \in BOOLEAN |-> NoMemo]]]

\* two updates returned the same path, made the same lock decision and
\* showed the same warning
SameAnswer(f, g) ==
    /\ f.ret = g.ret
    /\ f.outcome = g.outcome
    /\ f.warning = g.warning
    /\ f.reset_button = g.reset_button

\* C29 as stated: an evaluation of the file knob of a node returns the
\* path, makes the lock decision, shows the warning and leaves the cached
\* path knobs that it would with the settings cache dropped just before it.
C29_SettingsCacheIsAdvisory ==
    [][(lastOp'.op = "compute" /\ lastOp'.frames # <<>>)
       => LET f == lastOp'.frames[1]
              r == on_compute_path(WithoutMemo(S), f.node, f.is_proxy, NoCalls)
          IN  /\ SameAnswer(f, r.frames[1])
              /\ cached_path' = r.st.cached_path
              /\ cached_proxy_path' = r.st.cached_proxy_path
              /\ path_warning' = r.st.path_warning]_vars

\* the update is one that is to record the script: forced, or the node has
\* no last known script
Recording(f) == f.force \/ f.lks_in = NoScript

\* C30 as stated: after an update that is forced or finds no last known
\* script, the last known script of the node is the current script path; an
\* update that is not forced leaves a last known script as it is.
C30_ScriptRecordedOnReset ==
    \A i \in DOMAIN Frames :
        LET f == Frames[i]
        IN  f.outcome \notin {"rendering", "reentrant"} =>
                IF Recording(f) THEN f.lks_out = script ELSE f.lks_out = f.lks_in

\* C30: an update that computes a path, whether or not it finds the node
\* locked, records the current script path as the last known script if it
\* is forced or the node has none; every other update (not forced with a
\* last known script, failed computation, guarded early return, exception)
\* leaves the last known script as it is.
C30_ScriptRecordedWithPath ==
    \A i \in DOMAIN Frames :
        LET f == Frames[i]
        IN  IF f.outcome \in {"ok", "locked"} /\ Recording(f)
            THEN f.lks_out = script
            ELSE f.lks_out = f.lks_in

\* a forced update could not compute a path and the last known script of the
\* node is still one that is not the current script
C30_Witness ==
    \E i \in DOMAIN Frames :
        /\ Frames[i].force
        /\ Frames[i].outcome = "error"
        /\ Frames[i].lks_in # NoScript
        /\ Frames[i].lks_in # script
        /\ last_known_script[Frames[i].node] = Frames[i].lks_in

\* the knobs of a node that a reset may write, apart from the stored settings
PathState(n) ==
    <<cached_path[n], cached_proxy_path[n], last_known_script[n],
      path_warning[n], reset_visible[n]>>

\* C31: a save to the path that is the last known script of a node leaves
\* the cached paths, the last known script, the warning and the reset button
\* of that node as they are; and the save handler changes nothing at all
\* while the document has no script path.
C31_SaveInPlaceKeepsNode ==
    [][/\ lastOp'.op = "save" =>
            \A n \in Nodes :
                last_known_script[n] = script' => PathState(n)' = PathState(n)
       /\ on_script_save([S EXCEPT !.script = NoScript]).st
              = [S EXCEPT !.script = NoScript]]_vars

\* a save reset one node and left another, whose last known script is the
\* saved path and which has cached paths, alone
C31_Witness ==
    /\ lastOp.op = "save"
    /\ Len(lastOp.visited) = 2
    /\ \E n, m \in Nodes :
          /\ SaveReset(m)
          /\ \A i \in DOMAIN lastOp.frames : lastOp.frames[i].node # n
          /\ last_known_script[n] = script
          /\ cached_path[n] # NoPath
          /\ tcl_settings[n]

\* an update that found no cached path and whose computation succeeded
UncachedComputed(f) ==
    /\ f.outcome \in {"ok", "locked"}
    /\ f.cached_in = NoPath

\* C32 as stated: an update, forced or not, that finds no cached path for
\* its node and mode and whose computation succeeds leaves the computed path
\* in the knob, returns it, and raises no lock warning and no reset button.
C32_UncachedAcceptsComputed ==
    \A i \in DOMAIN Frames :
        UncachedComputed(Frames[i]) =>
            /\ Frames[i].outcome = "ok"
            /\ Frames[i].knob_out = Frames[i].candidate
            /\ Frames[i].ret = Frames[i].candidate
            /\ Frames[i].warning = NoWarning
            /\ ~Frames[i].reset_button

\* the template a knob of the node names through its profile, or by itself
\* where the profile is gone
TemplateOf(n, knob) == get_template(S, n, knob).tmpl

\* C33 as stated: get_proxy_render_template returns the proxy render
\* template of the node where one is defined and the regular render template
\* otherwise, and no template only where neither is defined.
C33_ProxyTemplateFallsBack ==
    lastOp.op = "get_proxy_render_template" =>
        lastOp.res.path =
            <<IF TemplateOf(lastOp.node, "proxy_render_template") # NoTemplate
              THEN TemplateOf(lastOp.node, "proxy_render_template")
              ELSE TemplateOf(lastOp.node, "render_template")>>

\* the nodes setup_new_node was called for in the last invocation
SetUpNodes ==
    IF lastOp.op = "setup" THEN {lastOp.node}
    ELSE IF lastOp.op = "context"
    THEN {lastOp.visited[i] : i \in DOMAIN lastOp.visited}
    ELSE {}

\* the template name knobs of the node hold what its loaded profile defines
ProfileApplied(n) ==
    \A k \in TemplateKnobs :
        tmpl_knob[n][k] = get_template_by_name(profiles[profile_name[n]][k])

\* C34 as stated: setup_new_node reapplies the profile of a node from the
\* current profile table, also where the node was set up before.
C34_SetupReappliesProfile ==
    ~lastOp.raised =>
        \A n \in SetUpNodes : HasProfileSettings(S, n) => ProfileApplied(n)

\* C35 as stated: setting up a node loaded with a profile that is still
\* configured applies that same profile, so it runs no forced update and the
\* cached paths of the node are after the setup what they were in the file.
C35_LoadNeverResets ==
    [][(/\ lastOp'.op = "setup"
        /\ ~constructed[lastOp'.node]
        /\ HasProfileSettings(S, lastOp'.node))
       => /\ profile_name'[lastOp'.node] = profile_name[lastOp'.node]
          /\ \A i \in DOMAIN lastOp'.frames : ~lastOp'.frames[i].force
          /\ cached_path'[lastOp'.node] = cached_path[lastOp'.node]
          /\ cached_proxy_path'[lastOp'.node] = cached_proxy_path[lastOp'.node]]_vars

C37_ReturnsCachedKnob ==
    \A i \in DOMAIN Frames : ~Frames[i].raised => Frames[i].ret = Frames[i].knob_out

\* a forced update that replaced a cached path and returned the new one
C37_Witness ==
    \E i \in DOMAIN Frames :
        /\ Frames[i].force
        /\ Frames[i].outcome = "ok"
        /\ ~Frames[i].raised
        /\ Frames[i].cached_in # NoPath
        /\ Frames[i].ret # Frames[i].cached_in

\* the calls that update one node, with no callback delivered inside
UpdatesOnly(op, n) ==
    /\ op.op \in {"compute", "reset", "output", "profile", "setup"}
    /\ op.node = n
    /\ op.frames # <<>>
    /\ \A i \in DOMAIN op.frames : op.frames[i].node = n /\ op.frames[i].nested = <<>>

\* C38: an update of a node in one mode leaves the cached path of the other
\* mode of the node as it is, and the updates of a node leave the cached
\* paths and the last known script of every other node as they are; the
\* query render_path_is_locked changes no cached path, no last known script
\* and no warning of any node.
C38_UpdateTouchesOwnCachedPathOnly ==
    [][/\ \A n \in Nodes : UpdatesOnly(lastOp', n) =>
             /\ \A m \in Nodes \ {n} :
                   /\ cached_path'[m] = cached_path[m]
                   /\ cached_proxy_path'[m] = cached_proxy_path[m]
                   /\ last_known_script'[m] = last_known_script[m]
             /\ (\A i \in DOMAIN lastOp'.frames : ~lastOp'.frames[i].is_proxy)
                   => cached_proxy_path'[n] = cached_proxy_path[n]
             /\ (\A i \in DOMAIN lastOp'.frames : lastOp'.frames[i].is_proxy)
                   => cached_path'[n] = cached_path[n]
       /\ lastOp'.op = "is_locked" =>
             /\ cached_path' = cached_path
             /\ cached_proxy_path' = cached_proxy_path
             /\ last_known_script' = last_known_script
             /\ path_warning' = path_warning]_vars

\* a proxy update that replaced the cached proxy path of a node whose
\* full-resolution path is cached, next to another node
C38_Witness ==
    /\ lastOp.op = "compute"
    /\ Len(lastOp.frames) = 1
    /\ lastOp.frames[1].is_proxy
    /\ lastOp.frames[1].outcome = "ok"
    /\ lastOp.frames[1].ret # lastOp.frames[1].cached_in
    /\ cached_path[lastOp.node] # NoPath
    /\ Nodes \ {lastOp.node} # {}

\* the full-resolution path of the node can be computed
Computable(n) == compute_render_path(S, n, FALSE).res.ok

\* C39: the query render_path_is_locked never raises; it answers true for a
\* node whose full-resolution path cannot be computed, whatever the cached
\* path is and also right after a reset; it answers false for a node whose
\* path can be computed and whose cached path is empty.
C39_QueryNeverRaises ==
    lastOp.op = "is_locked" =>
        /\ ~lastOp.raised
        /\ ~Computable(lastOp.node) => lastOp.locked
        /\ (Computable(lastOp.node) /\ cached_path[lastOp.node] = NoPath) => ~lastOp.locked

\* the query answered false for a node whose path can be computed and
\* whose cached path is empty
C39_Witness ==
    /\ lastOp.op = "is_locked"
    /\ Computable(lastOp.node)
    /\ cached_path[lastOp.node] = NoPath
    /\ ~lastOp.locked

====
